---------------------------- MODULE Spec2Model ----------------------------
(***************************************************************************)
(* Model of the example programs of the MPI tutorial notebooks             *)
(* (src/notebooks): each %%px cell is run by every rank (engine) of the    *)
(* cluster; the ranks interleave and interact only through mpi4py calls.   *)
(*                                                                         *)
(* A run executes one program, chosen in Init together with the group      *)
(* size and the program's inputs.  pc[r] is the position of rank r in the  *)
(* cell, loc[r] holds rank r's Python variables under their source names,  *)
(* chan[<<s, d>>] is the FIFO of messages sent by s to d and not yet       *)
(* received, coll[r] the slots of the collective calls, entered[r] the     *)
(* number of comm.Barrier() calls rank r has made.                         *)
(*                                                                         *)
(* Python objects are tagged records: [t |-> "None"], [t |-> "int", v],    *)
(* [t |-> "bytes", v], [t |-> "list", v], [t |-> "ndarray", v].            *)
(***************************************************************************)
EXTENDS Integers, Sequences, FiniteSets, TLC

VARIABLES prog, size, pc, loc, chan, coll, entered

vars == <<prog, size, pc, loc, chan, coll, entered>>

(***************************************************************************)
(* Bounds of the model.                                                    *)
(***************************************************************************)
\* largest group size explored
MaxN == 4
\* uninitialised memory (np.empty) and random payloads hold a value in 0..MaxVal
MaxVal == 1
\* largest array length of the ping-pong payloads of send-vs-send.ipynb (the
\* notebook uses 1_000 to 1_000_000 elements)
MaxArr == 1
\* number of calls a %timeit line makes (the notebook asks for -n 1_000 and
\* -n 10_000 loops)
TimeitLoops == 2
\* largest iteration count measure_one derives from its trial run
MaxIterations == 11
\* number of times the scatter_reverse and scatter_forward cells are run, one
\* after the other, on the assembled vector
MaxCycles == 2
\* largest number of times a %%timeit cell without -n runs its body on a rank
\* (the notebook reports 7 runs of 10,000 and of 100,000 loops)
MaxLoops == 2

(***************************************************************************)
(* Python values.                                                          *)
(***************************************************************************)
PyNone == [t |-> "None"]
PyInt(n) == [t |-> "int", v |-> n]
PyBytes(s) == [t |-> "bytes", v |-> s]
PyList(s) == [t |-> "list", v |-> s]
NdArray(s) == [t |-> "ndarray", v |-> s]

Ranks(n) == 0 .. (n - 1)

\* the arrays of n elements, each element a value in 0..MaxVal
AnyArray(n) == {NdArray(s) : s \in [1 .. n -> 0 .. MaxVal]}

\* the contents np.empty(n) may hold: whatever the allocator left there
np_empty(n) == AnyArray(n)

\* the values np.random.random(n) may draw
np_random(n) == AnyArray(n)

\* np.arange(n): 0, 1, ..., n-1
np_arange(n) == NdArray([i \in 1 .. n |-> i - 1])

(***************************************************************************)
(* Point-to-point transport.  comm.send / comm.Send hand the message to    *)
(* the transport and return; comm.recv / comm.Recv block until a message   *)
(* from the source is at the head of the pair's FIFO.                      *)
(***************************************************************************)
NoMessagesMut(n) == [p \in Ranks(n) \X Ranks(n) |-> <<PyBytes(<<>>)>>]
NoMessages(n) == [p \in Ranks(n) \X Ranks(n) |-> <<>>]

\* what comm.send(obj, dest) puts on the wire: the pickled object, which
\* unpickles to an equal object
PickleMut(obj) == IF obj.t = "int" THEN PyInt(obj.v + 1) ELSE obj
Pickle(obj) == obj

\* the channels after rank s has sent obj to rank d
SendToMut(ch, s, d, obj) == [ch EXCEPT ![<<s, d>>] = Append(Append(@, obj), obj)]
SendTo(ch, s, d, obj) == [ch EXCEPT ![<<s, d>>] = Append(@, obj)]

\* comm.send(obj, dest=d) by rank s
send(ch, s, d, obj) == SendTo(ch, s, d, Pickle(obj))

\* comm.Send(buf, dest=d) by rank s: the buffer's elements, copied
Send(ch, s, d, buf) == SendTo(ch, s, d, NdArray(buf.v))

\* a message from s is waiting at d
CanRecv(ch, s, d) == Len(ch[<<s, d>>]) > 0

\* the message comm.recv(source=s) / comm.Recv(buf, source=s) delivers at d
Delivered(ch, s, d) == Head(ch[<<s, d>>])

\* the channels after d has received the message at the head from s
ConsumeMut(ch, s, d) == ch
Consume(ch, s, d) == [ch EXCEPT ![<<s, d>>] = Tail(@)]

\* comm.Recv(buf, source): the message's elements overwrite the first
\* Len(msg) elements of buf; the rest of buf keeps its contents
RecvIntoMut(buf, msg) == buf
RecvInto(buf, msg) ==
    NdArray([i \in 1 .. Len(buf.v) |->
                IF i <= Len(msg.v) THEN msg.v[i] ELSE buf.v[i]])

\* a message longer than the receive buffer is an MPI truncation error
Fits(buf, msg) == Len(msg.v) <= Len(buf.v)

(***************************************************************************)
(* State shared by every program's initial state.                          *)
(***************************************************************************)
InitGroup(p, n, start) ==
    /\ prog = p
    /\ size = n
    /\ pc = [r \in Ranks(n) |-> start]
    /\ chan = NoMessages(n)
    /\ coll = [scatter |-> [r \in Ranks(n) |-> <<>>],
               gather |-> [r \in Ranks(n) |-> <<>>]]
    /\ entered = [r \in Ranks(n) |-> 0]

(***************************************************************************)
(* send-recv.ipynb, the rank/size cell, run by every process of the group: *)
(*   comm = MPI.COMM_WORLD                                                 *)
(*   rank = comm.rank                                                      *)
(*   size = comm.size                                                      *)
(*   print(f"I am rank {rank} / {size}")                                   *)
(* Process r of the group is engine r of the cluster.  loc[r].stdout is    *)
(* the sequence of <<rank, size>> pairs process r has printed.             *)
(***************************************************************************)
\* comm.rank on process r of the group
comm_rankMut(r) == r % 2
comm_rank(r) == r

\* comm.size on a process of a group of n
comm_size(n) == n

InitRankSize ==
    \E n \in 1 .. MaxN :
        /\ InitGroup("rank_size", n, "rs_start")
        /\ loc = [r \in Ranks(n) |->
                    [rank |-> PyNone, size |-> PyNone, stdout |-> <<>>]]

RankSizeCell(r) ==
    /\ prog = "rank_size" /\ pc[r] = "rs_start"
    /\ loc' = [loc EXCEPT ![r].rank = PyInt(comm_rank(r)),
                          ![r].size = PyInt(comm_size(size)),
                          ![r].stdout = Append(@, <<comm_rank(r), comm_size(size)>>)]
    /\ pc' = [pc EXCEPT ![r] = "done"]
    /\ UNCHANGED <<prog, size, chan, coll, entered>>

(***************************************************************************)
(* send-recv.ipynb, the send/recv cell:                                    *)
(*   number = None                                                         *)
(*   if rank == 0:   number = -1; comm.send(number, dest=1)                *)
(*   elif rank == 1: number = comm.recv(source=0)                          *)
(***************************************************************************)
InitSendRecv ==
    \E n \in 2 .. MaxN :
        /\ InitGroup("send_recv", n, "sr_start")
        /\ loc = [r \in Ranks(n) |-> [number |-> PyNone]]

SendRecvRank0(r) ==
    /\ prog = "send_recv" /\ pc[r] = "sr_start" /\ r = 0
    /\ loc' = [loc EXCEPT ![r].number = PyInt(-1)]
    /\ chan' = send(chan, r, 1, PyInt(-1))
    /\ pc' = [pc EXCEPT ![r] = "done"]
    /\ UNCHANGED <<prog, size, coll, entered>>

SendRecvRank1(r) ==
    /\ prog = "send_recv" /\ pc[r] = "sr_start" /\ r = 1
    /\ CanRecv(chan, 0, r)
    /\ loc' = [loc EXCEPT ![r].number = Delivered(chan, 0, r)]
    /\ chan' = Consume(chan, 0, r)
    /\ pc' = [pc EXCEPT ![r] = "done"]
    /\ UNCHANGED <<prog, size, coll, entered>>

SendRecvOther(r) ==
    /\ prog = "send_recv" /\ pc[r] = "sr_start" /\ r \notin {0, 1}
    /\ pc' = [pc EXCEPT ![r] = "done"]
    /\ UNCHANGED <<prog, size, loc, chan, coll, entered>>

(***************************************************************************)
(* send-recv.ipynb, the Send/Recv cell:                                    *)
(*   shape = (2, 3); arr_size = shape[0] * shape[1]                        *)
(*   if rank == 0:   arr = np.arange(arr_size).reshape(shape)              *)
(*                   comm.Send(arr, dest=1)                                *)
(*   elif rank == 1: arr = np.empty(shape); comm.Recv(arr, source=0)       *)
(*   print(arr)                                                            *)
(* A 2x3 array is its 6 elements in row-major order.                       *)
(***************************************************************************)
shape_rows == 2
shape_cols == 3
arr_size == shape_rows * shape_cols

InitSendRecvBuf ==
    \E n \in 2 .. MaxN :
        /\ InitGroup("Send_Recv", n, "SR_start")
        /\ loc = [r \in Ranks(n) |-> [arr |-> PyNone]]

SendRecvBufRank0(r) ==
    /\ prog = "Send_Recv" /\ pc[r] = "SR_start" /\ r = 0
    /\ loc' = [loc EXCEPT ![r].arr = np_arange(arr_size)]
    /\ chan' = Send(chan, r, 1, np_arange(arr_size))
    /\ pc' = [pc EXCEPT ![r] = "done"]
    /\ UNCHANGED <<prog, size, coll, entered>>

\* arr = np.empty(shape): allocated, not initialised
SendRecvBufAlloc(r) ==
    /\ prog = "Send_Recv" /\ pc[r] = "SR_start" /\ r = 1
    /\ \E a \in np_empty(arr_size) : loc' = [loc EXCEPT ![r].arr = a]
    /\ pc' = [pc EXCEPT ![r] = "SR_recv"]
    /\ UNCHANGED <<prog, size, chan, coll, entered>>

SendRecvBufRank1(r) ==
    /\ prog = "Send_Recv" /\ pc[r] = "SR_recv"
    /\ CanRecv(chan, 0, r)
    /\ Fits(loc[r].arr, Delivered(chan, 0, r))
    /\ loc' = [loc EXCEPT ![r].arr = RecvInto(@, Delivered(chan, 0, r))]
    /\ chan' = Consume(chan, 0, r)
    /\ pc' = [pc EXCEPT ![r] = "done"]
    /\ UNCHANGED <<prog, size, coll, entered>>

\* on a rank other than 0 and 1 arr is never bound: print(arr) raises NameError
SendRecvBufOther(r) ==
    /\ prog = "Send_Recv" /\ pc[r] = "SR_start" /\ r \notin {0, 1}
    /\ pc' = [pc EXCEPT ![r] = "NameError"]
    /\ UNCHANGED <<prog, size, loc, chan, coll, entered>>

(***************************************************************************)
(* comm.Barrier(): a rank enters its k-th barrier (entered[r] = k) and is  *)
(* released once every rank of the group has entered its k-th barrier.     *)
(***************************************************************************)
BarrierEnter(ent, r) == [ent EXCEPT ![r] = @ + 1]

BarrierOpenMut(ent, n, r) == \E q \in Ranks(n) : ent[q] >= ent[r]
BarrierOpen(ent, n, r) == \A q \in Ranks(n) : ent[q] >= ent[r]

(***************************************************************************)
(* send-recv.ipynb, the ping-pong cell:                                    *)
(*   partner_rank = (rank + 1) % 2                                         *)
(*   assert size % 2 == 0                                                  *)
(*   for ping_pong_count in range(5):                                      *)
(*       if rank == ping_pong_count % 2:                                   *)
(*           ping_pong_count += 1                                          *)
(*           comm.send(ping_pong_count, dest=partner_rank)                 *)
(*       else:                                                             *)
(*           ping_pong_count = comm.recv(source=partner_rank)              *)
(*       comm.Barrier()                                                    *)
(* loc[r].i is the position of the range(5) iterator: the round.  Both     *)
(* branches print a line; loc[r].stdout is the sequence of lines rank r    *)
(* has printed, each the operation, the count and the partner.             *)
(***************************************************************************)
NRounds == 5

partner_rankMut(r) == r % 2
partner_rank(r) == (r + 1) % 2

\* assert size % 2 == 0, "Cannot work with an odd number of processes"
AssertEvenSizeMut(n) == n >= 0
AssertEvenSize(n) == n % 2 = 0

\* print(f"{rank} sent and incremented ping_pong_count {count} to {partner}")
\* print(f"{rank} received ping_pong_count {count} from {partner}")
PingPongLine(op, count, partner) == [op |-> op, count |-> count, partner |-> partner]

InitPingPong ==
    \E n \in 1 .. MaxN :
        /\ InitGroup("ping_pong", n, "pp_start")
        /\ loc = [r \in Ranks(n) |->
                    [partner_rank |-> PyNone, ping_pong_count |-> PyNone, i |-> 0,
                     stdout |-> <<>>]]

\* partner_rank = ...; assert size % 2 == 0
PingPongAssert(r) ==
    /\ prog = "ping_pong" /\ pc[r] = "pp_start"
    /\ loc' = [loc EXCEPT ![r].partner_rank = PyInt(partner_rank(r))]
    /\ pc' = [pc EXCEPT ![r] = IF AssertEvenSize(size) THEN "pp_loop"
                               ELSE "AssertionError"]
    /\ UNCHANGED <<prog, size, chan, coll, entered>>

\* the branch rank == ping_pong_count % 2 of round i
PingPongSend(r) ==
    /\ prog = "ping_pong" /\ pc[r] = "pp_loop"
    /\ r = loc[r].i % 2
    /\ loc' = [loc EXCEPT
                 ![r].ping_pong_count = PyInt(loc[r].i + 1),
                 ![r].stdout = Append(@, PingPongLine("sent", PyInt(loc[r].i + 1),
                                                      loc[r].partner_rank.v))]
    /\ chan' = send(chan, r, loc[r].partner_rank.v, PyInt(loc[r].i + 1))
    /\ pc' = [pc EXCEPT ![r] = "pp_barrier"]
    /\ UNCHANGED <<prog, size, coll, entered>>

\* the else branch of round i
PingPongRecv(r) ==
    /\ prog = "ping_pong" /\ pc[r] = "pp_loop"
    /\ r # loc[r].i % 2
    /\ CanRecv(chan, loc[r].partner_rank.v, r)
    /\ loc' = [loc EXCEPT
                 ![r].ping_pong_count = Delivered(chan, loc[r].partner_rank.v, r),
                 ![r].stdout = Append(@, PingPongLine("received",
                                                      Delivered(chan, loc[r].partner_rank.v, r),
                                                      loc[r].partner_rank.v))]
    /\ chan' = Consume(chan, loc[r].partner_rank.v, r)
    /\ pc' = [pc EXCEPT ![r] = "pp_barrier"]
    /\ UNCHANGED <<prog, size, coll, entered>>

\* comm.Barrier(): the call
PingPongBarrier(r) ==
    /\ prog = "ping_pong" /\ pc[r] = "pp_barrier"
    /\ entered' = BarrierEnter(entered, r)
    /\ pc' = [pc EXCEPT ![r] = "pp_wait"]
    /\ UNCHANGED <<prog, size, loc, chan, coll>>

\* comm.Barrier(): the return, and the next round of the loop
PingPongRelease(r) ==
    /\ prog = "ping_pong" /\ pc[r] = "pp_wait"
    /\ BarrierOpen(entered, size, r)
    /\ loc' = [loc EXCEPT ![r].i = @ + 1]
    /\ pc' = [pc EXCEPT ![r] = IF loc[r].i + 1 < NRounds THEN "pp_loop" ELSE "done"]
    /\ UNCHANGED <<prog, size, chan, coll, entered>>

(***************************************************************************)
(* send-recv.ipynb, the ring cell (send/recv):                             *)
(*   if rank != 0:                                                         *)
(*       token = comm.recv(source=rank - 1)                                *)
(*       token = token + f"{rank}".encode('ascii')                         *)
(*   else:                                                                 *)
(*       token = b"0"                                                      *)
(*   comm.send(token, dest=(rank + 1) % size)                              *)
(*   if rank == 0: token = comm.recv(source=size - 1)                      *)
(* A bytes object is the sequence of its byte values.                      *)
(***************************************************************************)
\* the ASCII code of the character "0"
Ascii0 == 48

\* f"{n}".encode('ascii'): the decimal digits of n, most significant first
RECURSIVE EncodeRank(_)
EncodeRank(n) ==
    IF n < 10 THEN <<Ascii0 + n>>
    ELSE Append(EncodeRank(n \div 10), Ascii0 + (n % 10))

\* token + f"{rank}".encode('ascii')
AppendRankMut(token, r) == PyBytes(EncodeRank(r) \o token.v)
AppendRank(token, r) == PyBytes(token.v \o EncodeRank(r))

\* dest=(rank + 1) % size: the next rank around the ring
RingDestMut(r, n) == IF r + 1 < n THEN r + 1 ELSE r
RingDest(r, n) == (r + 1) % n

InitRing ==
    \E n \in 1 .. MaxN :
        /\ InitGroup("ring", n, "ring_start")
        /\ loc = [r \in Ranks(n) |-> [token |-> PyNone]]

\* token = comm.recv(source=rank - 1), on a rank other than 0
RingRecv(r) ==
    /\ prog = "ring" /\ pc[r] = "ring_start" /\ r # 0
    /\ CanRecv(chan, r - 1, r)
    /\ loc' = [loc EXCEPT ![r].token = Delivered(chan, r - 1, r)]
    /\ chan' = Consume(chan, r - 1, r)
    /\ pc' = [pc EXCEPT ![r] = "ring_send"]
    /\ UNCHANGED <<prog, size, coll, entered>>

\* the token a rank sends on: b"0" on rank 0, the received one extended otherwise
RingToken(r) == IF r = 0 THEN PyBytes(<<Ascii0>>) ELSE AppendRank(loc[r].token, r)

\* comm.send(token, dest=(rank + 1) % size)
RingSend(r) ==
    /\ prog = "ring"
    /\ \/ r = 0 /\ pc[r] = "ring_start"
       \/ r # 0 /\ pc[r] = "ring_send"
    /\ loc' = [loc EXCEPT ![r].token = RingToken(r)]
    /\ chan' = send(chan, r, RingDest(r, size), RingToken(r))
    /\ pc' = [pc EXCEPT ![r] = IF r = 0 THEN "ring_final" ELSE "done"]
    /\ UNCHANGED <<prog, size, coll, entered>>

\* token = comm.recv(source=size - 1), on rank 0
RingFinal(r) ==
    /\ prog = "ring" /\ pc[r] = "ring_final"
    /\ CanRecv(chan, size - 1, r)
    /\ loc' = [loc EXCEPT ![r].token = Delivered(chan, size - 1, r)]
    /\ chan' = Consume(chan, size - 1, r)
    /\ pc' = [pc EXCEPT ![r] = "done"]
    /\ UNCHANGED <<prog, size, coll, entered>>

(***************************************************************************)
(* send-recv.ipynb, the ring cell with a numpy array as buffer (Send/Recv): *)
(*   buf = np.zeros(size, dtype=np.uint8)                                  *)
(*   if rank != 0:                                                         *)
(*       token = buf[:rank]                                                *)
(*       comm.Recv(token, source=rank - 1)                                 *)
(*       print(f"{rank} received {token} from {rank - 1}")                 *)
(*       token = buf[:rank + 1]                                            *)
(*       token[rank] = rank                                                *)
(*   else:                                                                 *)
(*       token = b'\0'                                                     *)
(*   comm.Send(token, dest=(rank + 1) % size)                              *)
(*   if rank == 0:                                                         *)
(*       token = buf                                                       *)
(*       comm.Recv(token, source=size - 1)                                 *)
(*       print(f"{rank} received {token} from {size - 1}")                 *)
(* token is a view of buf: what is received into token is written to buf.  *)
(* loc[r].stdout is the sequence of tokens rank r has printed.             *)
(***************************************************************************)
\* np.zeros(n, dtype=np.uint8)
np_zeros(n) == NdArray([i \in 1 .. n |-> 0])

\* buf[:k]: the first k elements of buf
SliceTo(buf, k) == NdArray(SubSeq(buf.v, 1, k))

\* token[i] = val on the view token of buf (0-indexed): buf after the store
SetItemMut(buf, i, val) == NdArray([buf.v EXCEPT ![i] = val])
SetItem(buf, i, val) == NdArray([buf.v EXCEPT ![i + 1] = val])

InitRingBuf ==
    \E n \in 1 .. MaxN :
        /\ InitGroup("Ring", n, "ring_start")
        /\ loc = [r \in Ranks(n) |->
                    [buf |-> np_zeros(n), token |-> PyNone, stdout |-> <<>>]]

\* comm.Recv(token, source=rank - 1) into token = buf[:rank], and the print
RingBufRecv(r) ==
    /\ prog = "Ring" /\ pc[r] = "ring_start" /\ r # 0
    /\ CanRecv(chan, r - 1, r)
    /\ IF Fits(SliceTo(loc[r].buf, r), Delivered(chan, r - 1, r))
       THEN LET filled == RecvInto(SliceTo(loc[r].buf, r), Delivered(chan, r - 1, r))
            IN  /\ loc' = [loc EXCEPT ![r].buf = RecvInto(@, filled),
                                      ![r].token = filled,
                                      ![r].stdout = Append(@, filled)]
                /\ pc' = [pc EXCEPT ![r] = "ring_send"]
       ELSE /\ loc' = [loc EXCEPT ![r].token = SliceTo(loc[r].buf, r)]
            /\ pc' = [pc EXCEPT ![r] = "MPI_ERR_TRUNCATE"]
    /\ chan' = Consume(chan, r - 1, r)
    /\ UNCHANGED <<prog, size, coll, entered>>

\* buf once rank r has stored its rank: token = buf[:rank + 1]; token[rank] = rank
RingBufStored(r) == IF r = 0 THEN loc[r].buf ELSE SetItem(loc[r].buf, r, r)

\* the token a rank sends on: b'\0' on rank 0, buf[:rank + 1] otherwise
RingBufTokenMut(r) ==
    IF r = 0 THEN PyBytes(<<0>>) ELSE SliceTo(RingBufStored(r), r)
RingBufToken(r) ==
    IF r = 0 THEN PyBytes(<<0>>) ELSE SliceTo(RingBufStored(r), r + 1)

\* comm.Send(token, dest=(rank + 1) % size)
RingBufSend(r) ==
    /\ prog = "Ring"
    /\ \/ r = 0 /\ pc[r] = "ring_start"
       \/ r # 0 /\ pc[r] = "ring_send"
    /\ loc' = [loc EXCEPT ![r].buf = RingBufStored(r), ![r].token = RingBufToken(r)]
    /\ chan' = Send(chan, r, RingDest(r, size), RingBufToken(r))
    /\ pc' = [pc EXCEPT ![r] = IF r = 0 THEN "ring_final" ELSE "done"]
    /\ UNCHANGED <<prog, size, coll, entered>>

\* token = buf; comm.Recv(token, source=size - 1) on rank 0, and the print
RingBufFinal(r) ==
    /\ prog = "Ring" /\ pc[r] = "ring_final"
    /\ CanRecv(chan, size - 1, r)
    /\ IF Fits(loc[r].buf, Delivered(chan, size - 1, r))
       THEN LET filled == RecvInto(loc[r].buf, Delivered(chan, size - 1, r))
            IN  /\ loc' = [loc EXCEPT ![r].buf = filled, ![r].token = filled,
                                      ![r].stdout = Append(@, filled)]
                /\ pc' = [pc EXCEPT ![r] = "done"]
       ELSE /\ loc' = [loc EXCEPT ![r].token = loc[r].buf]
            /\ pc' = [pc EXCEPT ![r] = "MPI_ERR_TRUNCATE"]
    /\ chan' = Consume(chan, size - 1, r)
    /\ UNCHANGED <<prog, size, coll, entered>>

(***************************************************************************)
(* Collective transport.  coll.scatter[q] is the FIFO of chunks root has   *)
(* scattered to rank q, coll.gather[q] the FIFO of values rank q has       *)
(* contributed to a gather and root has not collected yet.                 *)
(***************************************************************************)
\* the chunk comm.scatter(data, root) hands to rank q: element q of the sequence
ScatterChunkMut(data, q) == data.v[1]
ScatterChunk(data, q) == data.v[q + 1]

\* root's side of comm.scatter: one chunk queued for every other rank
ScatterSlotsMut(sl, data, rt, n) ==
    [q \in Ranks(n) |->
        IF q = rt THEN sl[q] ELSE Append(sl[q], ScatterChunk(data, (q + 1) % n))]
ScatterSlots(sl, data, rt, n) ==
    [q \in Ranks(n) |->
        IF q = rt THEN sl[q] ELSE Append(sl[q], ScatterChunk(data, q))]

\* comm.scatter checks on root that the sequence has one item per rank
ScatterShapeOkMut(data, n) == data.t = "list" /\ Len(data.v) >= n
ScatterShapeOk(data, n) == data.t = "list" /\ Len(data.v) = n

\* root's result of comm.gather: the contributions in rank order, root's own
\* (own) among them
GatherAtRootMut(sl, own, rt, n) ==
    PyList([i \in 1 .. n |-> IF n - i = rt THEN own ELSE Head(sl[n - i])])
GatherAtRoot(sl, own, rt, n) ==
    PyList([i \in 1 .. n |-> IF i - 1 = rt THEN own ELSE Head(sl[i - 1])])

\* every other rank's contribution has arrived at root
GatherReady(sl, rt, n) == \A q \in Ranks(n) \ {rt} : Len(sl[q]) > 0

\* the gather slots after root has collected one contribution of every rank
GatherCollect(sl, rt, n) ==
    [q \in Ranks(n) |-> IF q = rt THEN sl[q] ELSE Tail(sl[q])]

(***************************************************************************)
(* scatter-gather.ipynb, the scatter cell and the gather cell:             *)
(*   root = 0                                                              *)
(*   if rank == root: data = [(i+1)**2 for i in range(size)]               *)
(*   else:            data = None                                          *)
(*   scattered_data = comm.scatter(data, root=root)                        *)
(*   modified_data = scattered_data + rank                                 *)
(*   gathered_data = comm.gather(modified_data, root=root)                 *)
(***************************************************************************)
root == 0

\* [(i+1)**2 for i in range(size)]
Squares(n) == PyList([i \in 1 .. n |-> PyInt(i * i)])

\* scattered_data + rank
AddRankMut(x, r) == PyInt(x.v + 3 * r)
AddRank(x, r) == PyInt(x.v + r)

InitScatterGather ==
    \E n \in 1 .. MaxN :
        /\ InitGroup("scatter_gather", n, "sg_start")
        /\ loc = [r \in Ranks(n) |->
                    [data |-> PyNone, scattered_data |-> PyNone,
                     modified_data |-> PyNone, gathered_data |-> PyNone]]

\* the same cells with root's list replaced by a list of any length up to
\* MaxN: what comm.scatter does with a sequence that has not one item per rank
InitScatterAny ==
    \E n \in 1 .. MaxN, m \in 0 .. MaxN :
        /\ InitGroup("scatter_any", n, "sg_start")
        /\ loc = [r \in Ranks(n) |->
                    [data |-> PyNone, scattered_data |-> PyNone,
                     modified_data |-> PyNone, gathered_data |-> PyNone,
                     seq |-> Squares(m)]]

ScatterProgs == {"scatter_gather", "scatter_any"}

\* the list root builds and passes to comm.scatter
RootData(r) == IF prog = "scatter_gather" THEN Squares(size) ELSE loc[r].seq

\* the scatter cell on root: comm.scatter raises ValueError on root, before
\* any communication, when the list has not one item per rank
ScatterRoot(r) ==
    /\ prog \in ScatterProgs /\ pc[r] = "sg_start" /\ r = root
    /\ IF ScatterShapeOk(RootData(r), size)
       THEN /\ loc' = [loc EXCEPT ![r].data = RootData(r),
                                  ![r].scattered_data = ScatterChunk(RootData(r), r)]
            /\ coll' = [coll EXCEPT !.scatter = ScatterSlots(@, RootData(r), r, size)]
            /\ pc' = [pc EXCEPT ![r] = "sg_modify"]
       ELSE /\ loc' = [loc EXCEPT ![r].data = RootData(r)]
            /\ pc' = [pc EXCEPT ![r] = "ValueError"]
            /\ UNCHANGED coll
    /\ UNCHANGED <<prog, size, chan, entered>>

\* the scatter cell on another rank: data = None, the call returns with the chunk
ScatterRecv(r) ==
    /\ prog \in ScatterProgs /\ pc[r] = "sg_start" /\ r # root
    /\ Len(coll.scatter[r]) > 0
    /\ loc' = [loc EXCEPT ![r].scattered_data = Head(coll.scatter[r])]
    /\ coll' = [coll EXCEPT !.scatter[r] = Tail(@)]
    /\ pc' = [pc EXCEPT ![r] = "sg_modify"]
    /\ UNCHANGED <<prog, size, chan, entered>>

\* modified_data = scattered_data + rank
Modify(r) ==
    /\ prog \in ScatterProgs /\ pc[r] = "sg_modify"
    /\ loc' = [loc EXCEPT ![r].modified_data = AddRank(loc[r].scattered_data, r)]
    /\ pc' = [pc EXCEPT ![r] = "sg_gather"]
    /\ UNCHANGED <<prog, size, chan, coll, entered>>

\* comm.gather on a rank other than root: contributes, returns None
GatherSend(r) ==
    /\ prog \in ScatterProgs /\ pc[r] = "sg_gather" /\ r # root
    /\ coll' = [coll EXCEPT !.gather[r] = Append(@, loc[r].modified_data)]
    /\ loc' = [loc EXCEPT ![r].gathered_data = PyNone]
    /\ pc' = [pc EXCEPT ![r] = "done"]
    /\ UNCHANGED <<prog, size, chan, entered>>

\* comm.gather on root: returns once every rank has contributed
GatherRoot(r) ==
    /\ prog \in ScatterProgs /\ pc[r] = "sg_gather" /\ r = root
    /\ GatherReady(coll.gather, r, size)
    /\ loc' = [loc EXCEPT ![r].gathered_data =
                    GatherAtRoot(coll.gather, loc[r].modified_data, r, size)]
    /\ coll' = [coll EXCEPT !.gather = GatherCollect(@, r, size)]
    /\ pc' = [pc EXCEPT ![r] = "done"]
    /\ UNCHANGED <<prog, size, chan, entered>>

(***************************************************************************)
(* scatter-gather.ipynb, "Gather vs gather": the two timed cells.          *)
(*   data = None                                                           *)
(*   if rank == root: data = np.arange(comm.size, dtype=np.int32)          *)
(* the object variant (prog "scatter_timed"),                              *)
(*   %%timeit                                                              *)
(*   recv_data = comm.scatter(data, root=root)                             *)
(*   recv_data += 3*rank                                                   *)
(*   gth_data = comm.gather(recv_data, root=root)                          *)
(* and the buffer variant (prog "Scatter_timed"),                          *)
(*   recv_buffer = np.empty(1, dtype=np.int32)                             *)
(*   gth_size = comm.size if rank == 0 else 0                              *)
(*   gth_buffer = np.empty(gth_size, dtype=np.int32)                       *)
(*   %%timeit                                                              *)
(*   comm.Scatter(data, recv_buffer, root=root)                            *)
(*   recv_buffer[:] = recv_buffer[:] + 3*rank                              *)
(*   comm.Gather(recv_buffer, gth_buffer, root=root)                       *)
(* %%timeit is given no -n: every rank picks the number of times it runs   *)
(* the body from its own time measurements.  loc[r].runs is the number of  *)
(* times rank r has run the body.                                          *)
(***************************************************************************)
TimedProgs == {"scatter_timed", "Scatter_timed"}

\* the group of scatter-gather.ipynb: ipp.Cluster(engines="mpi", n=3); the
\* timed cells are explored on that group and on the smaller ones
TimedClusterN == 3

\* an element of an int32 array as a Python object: np.int32
NpInt32(x) == [t |-> "int32", v |-> x]

\* the items comm.scatter takes from an array passed as the sequence
Items(arr) == PyList([i \in 1 .. Len(arr.v) |-> NpInt32(arr.v[i])])

\* the part of the send buffer comm.Scatter hands to rank q of n: equal parts
ScatterPartMut(data, q, n) ==
    NdArray(SubSeq(data.v, 1, Len(data.v) \div n))
ScatterPart(data, q, n) ==
    NdArray(SubSeq(data.v, q * (Len(data.v) \div n) + 1, (q + 1) * (Len(data.v) \div n)))

\* root's side of comm.Scatter: one part queued for every other rank
ScatterParts(sl, data, rt, n) ==
    [q \in Ranks(n) |->
        IF q = rt THEN sl[q] ELSE Append(sl[q], ScatterPart(data, q, n))]

\* root's receive buffer after comm.Gather: the contributions (one element
\* each) in rank order, root's own (own) among them
GatherIntoBuffer(sl, own, rt, n) ==
    NdArray([i \in 1 .. n |-> GatherAtRoot(sl, own, rt, n).v[i].v[1]])

\* recv_data += 3*rank; recv_buffer[:] = recv_buffer[:] + 3*rank
AddThreeRank(x, r) == x + 3 * r

InitTimed ==
    \E n \in 1 .. TimedClusterN, p \in TimedProgs :
        /\ InitGroup(p, n, "tg_data")
        /\ loc = [r \in Ranks(n) |->
                    [data |-> PyNone, recv_data |-> PyNone, gth_data |-> PyNone,
                     recv_buffer |-> PyNone, gth_buffer |-> PyNone, runs |-> 0]]

\* data = None; if rank == root: data = np.arange(comm.size, dtype=np.int32)
TimedData(r) ==
    /\ prog \in TimedProgs /\ pc[r] = "tg_data"
    /\ loc' = [loc EXCEPT ![r].data = IF r = root THEN np_arange(size) ELSE PyNone]
    /\ pc' = [pc EXCEPT ![r] = IF prog = "Scatter_timed" THEN "tg_alloc" ELSE "tg_scatter"]
    /\ UNCHANGED <<prog, size, chan, coll, entered>>

\* the allocation cell of the buffer variant
TimedAlloc(r) ==
    /\ prog = "Scatter_timed" /\ pc[r] = "tg_alloc"
    /\ \E rb \in np_empty(1), gb \in np_empty(IF r = 0 THEN size ELSE 0) :
          loc' = [loc EXCEPT ![r].recv_buffer = rb, ![r].gth_buffer = gb]
    /\ pc' = [pc EXCEPT ![r] = "tg_scatter"]
    /\ UNCHANGED <<prog, size, chan, coll, entered>>

\* comm.scatter(data, root=root) / comm.Scatter(data, recv_buffer, root=root)
\* on root
TimedScatterRoot(r) ==
    /\ prog \in TimedProgs /\ pc[r] = "tg_scatter" /\ r = root
    /\ IF prog = "scatter_timed"
       THEN /\ loc' = [loc EXCEPT ![r].recv_data = ScatterChunk(Items(loc[r].data), r)]
            /\ coll' = [coll EXCEPT !.scatter = ScatterSlots(@, Items(loc[r].data), r, size)]
       ELSE /\ loc' = [loc EXCEPT ![r].recv_buffer =
                            RecvInto(@, ScatterPart(loc[r].data, r, size))]
            /\ coll' = [coll EXCEPT !.scatter = ScatterParts(@, loc[r].data, r, size)]
    /\ pc' = [pc EXCEPT ![r] = "tg_modify"]
    /\ UNCHANGED <<prog, size, chan, entered>>

\* the same calls on another rank: they return with what root handed out
TimedScatterRecv(r) ==
    /\ prog \in TimedProgs /\ pc[r] = "tg_scatter" /\ r # root
    /\ Len(coll.scatter[r]) > 0
    /\ loc' = IF prog = "scatter_timed"
              THEN [loc EXCEPT ![r].recv_data = Head(coll.scatter[r])]
              ELSE [loc EXCEPT ![r].recv_buffer = RecvInto(@, Head(coll.scatter[r]))]
    /\ coll' = [coll EXCEPT !.scatter[r] = Tail(@)]
    /\ pc' = [pc EXCEPT ![r] = "tg_modify"]
    /\ UNCHANGED <<prog, size, chan, entered>>

\* recv_data += 3*rank / recv_buffer[:] = recv_buffer[:] + 3*rank
TimedModify(r) ==
    /\ prog \in TimedProgs /\ pc[r] = "tg_modify"
    /\ loc' = IF prog = "scatter_timed"
              THEN [loc EXCEPT ![r].recv_data = NpInt32(AddThreeRank(@.v, r))]
              ELSE [loc EXCEPT ![r].recv_buffer =
                        NdArray([i \in 1 .. Len(@.v) |-> AddThreeRank(@.v[i], r)])]
    /\ pc' = [pc EXCEPT ![r] = "tg_gather"]
    /\ UNCHANGED <<prog, size, chan, coll, entered>>

\* %%timeit after a run of the body: from the time it measured, the rank
\* runs the body again (at most MaxLoops runs in all) or stops
TimeitNext(runs) ==
    IF runs < MaxLoops THEN {"tg_scatter", "done"} ELSE {"done"}

\* comm.gather / comm.Gather on a rank other than root: contributes; the body
\* has run once more
TimedGatherSend(r) ==
    /\ prog \in TimedProgs /\ pc[r] = "tg_gather" /\ r # root
    /\ coll' = [coll EXCEPT !.gather[r] =
                    Append(@, IF prog = "scatter_timed" THEN loc[r].recv_data
                              ELSE NdArray(loc[r].recv_buffer.v))]
    /\ loc' = [loc EXCEPT ![r].runs = @ + 1]
    /\ \E nxt \in TimeitNext(loc[r].runs + 1) : pc' = [pc EXCEPT ![r] = nxt]
    /\ UNCHANGED <<prog, size, chan, entered>>

\* comm.gather / comm.Gather on root: returns once every rank has
\* contributed; the body has run once more
TimedGatherRoot(r) ==
    /\ prog \in TimedProgs /\ pc[r] = "tg_gather" /\ r = root
    /\ GatherReady(coll.gather, r, size)
    /\ loc' = IF prog = "scatter_timed"
              THEN [loc EXCEPT ![r].gth_data =
                        GatherAtRoot(coll.gather, loc[r].recv_data, r, size),
                               ![r].runs = @ + 1]
              ELSE [loc EXCEPT ![r].gth_buffer =
                        RecvInto(@, GatherIntoBuffer(coll.gather, loc[r].recv_buffer,
                                                     r, size)),
                               ![r].runs = @ + 1]
    /\ coll' = [coll EXCEPT !.gather = GatherCollect(@, r, size)]
    /\ \E nxt \in TimeitNext(loc[r].runs + 1) : pc' = [pc EXCEPT ![r] = nxt]
    /\ UNCHANGED <<prog, size, chan, entered>>

(***************************************************************************)
(* send-vs-send.ipynb: the two ping-pong implementations.                  *)
(*   def ping_pong_send(arr):                                              *)
(*       if rank == 0:   comm.send(arr, dest=1); comm.recv(source=1)       *)
(*       elif rank == 1: comm.recv(source=0); comm.send(arr, dest=0)       *)
(*   def ping_pong_Send(arr):                                              *)
(*       if rank == 0:   comm.Send(arr, dest=1); comm.Recv(arr, source=1)  *)
(*       elif rank == 1: comm.Recv(arr, source=0); comm.Send(arr, dest=0)  *)
(* loc[r].kind is the implementation being called, loc[r].left the number  *)
(* of calls left in the current loop, loc[r].ret the position after the    *)
(* loop.  loc[r].sent and loc[r].delivered record, per implementation, the *)
(* content of the last message rank r sent and of the last message         *)
(* delivered at a receive of rank r (lowercase recv discards its result).  *)
(***************************************************************************)
\* the group of send-vs-send.ipynb: ipp.Cluster(engines="mpi", n=2)
ClusterN == 2

\* comm.send(arr, dest) in ping_pong_send, comm.Send(arr, dest) in ping_pong_Send
Transmit(ch, kind, s, d, arr) ==
    IF kind = "send" THEN send(ch, s, d, arr) ELSE Send(ch, s, d, arr)

\* arr after the receive: comm.recv(source) drops the object it returns,
\* comm.Recv(arr, source) fills arr with the message
Receive(kind, arr, msg) == IF kind = "send" THEN arr ELSE RecvInto(arr, msg)

Record(h, kind, msg) == [h EXCEPT ![kind] = msg]

NoHistory == [send |-> PyNone, Send |-> PyNone]

\* the position after one call f(arr) of the loop `for i in range(iterations)`
AfterCall(r) == IF loc[r].left - 1 > 0 THEN "call" ELSE loc[r].ret

\* rank 0: comm.send(arr, dest=1) / comm.Send(arr, dest=1)
Ping(r) ==
    /\ prog \in {"timeit", "measure_one"} /\ pc[r] = "call" /\ r = 0
    /\ chan' = Transmit(chan, loc[r].kind, r, 1, loc[r].arr)
    /\ loc' = [loc EXCEPT ![r].sent = Record(@, loc[r].kind, loc[r].arr)]
    /\ pc' = [pc EXCEPT ![r] = "reply"]
    /\ UNCHANGED <<prog, size, coll, entered>>

\* rank 0: comm.recv(source=1) / comm.Recv(arr, source=1)
RecvReply(r) ==
    /\ prog \in {"timeit", "measure_one"} /\ pc[r] = "reply"
    /\ CanRecv(chan, 1, r)
    /\ Fits(loc[r].arr, Delivered(chan, 1, r))
    /\ loc' = [loc EXCEPT
                 ![r].arr = Receive(loc[r].kind, @, Delivered(chan, 1, r)),
                 ![r].delivered = Record(@, loc[r].kind, Delivered(chan, 1, r)),
                 ![r].left = @ - 1]
    /\ chan' = Consume(chan, 1, r)
    /\ pc' = [pc EXCEPT ![r] = AfterCall(r)]
    /\ UNCHANGED <<prog, size, coll, entered>>

\* rank 1: comm.recv(source=0) / comm.Recv(arr, source=0)
RecvPing(r) ==
    /\ prog \in {"timeit", "measure_one"} /\ pc[r] = "call" /\ r = 1
    /\ CanRecv(chan, 0, r)
    /\ Fits(loc[r].arr, Delivered(chan, 0, r))
    /\ loc' = [loc EXCEPT
                 ![r].arr = Receive(loc[r].kind, @, Delivered(chan, 0, r)),
                 ![r].delivered = Record(@, loc[r].kind, Delivered(chan, 0, r))]
    /\ chan' = Consume(chan, 0, r)
    /\ pc' = [pc EXCEPT ![r] = "pong"]
    /\ UNCHANGED <<prog, size, coll, entered>>

\* rank 1: comm.send(arr, dest=0) / comm.Send(arr, dest=0)
Pong(r) ==
    /\ prog \in {"timeit", "measure_one"} /\ pc[r] = "pong"
    /\ chan' = Transmit(chan, loc[r].kind, r, 0, loc[r].arr)
    /\ loc' = [loc EXCEPT ![r].sent = Record(@, loc[r].kind, loc[r].arr),
                          ![r].left = @ - 1]
    /\ pc' = [pc EXCEPT ![r] = AfterCall(r)]
    /\ UNCHANGED <<prog, size, coll, entered>>

(***************************************************************************)
(* send-vs-send.ipynb, the %timeit cell:                                   *)
(*   arr = np.random.random(100_000)                                       *)
(*   %timeit -n 1_000 ping_pong_send(arr)                                  *)
(*   %timeit -n 10_000 ping_pong_Send(arr)                                 *)
(* Every rank draws its own arr; both lines use it.                        *)
(***************************************************************************)
InitTimeit ==
    \E n \in 1 .. MaxArr :
        /\ InitGroup("timeit", ClusterN, "t_start")
        /\ loc = [r \in Ranks(ClusterN) |->
                    [arr |-> PyNone, n |-> n, kind |-> "none", left |-> 0,
                     ret |-> "none", sent |-> NoHistory, delivered |-> NoHistory]]

\* arr = np.random.random(...), then the first %timeit line
TimeitFirst(r) ==
    /\ prog = "timeit" /\ pc[r] = "t_start"
    /\ \E a \in np_random(loc[r].n) :
           loc' = [loc EXCEPT ![r].arr = a, ![r].kind = "send",
                              ![r].left = TimeitLoops, ![r].ret = "t_second"]
    /\ pc' = [pc EXCEPT ![r] = "call"]
    /\ UNCHANGED <<prog, size, chan, coll, entered>>

\* the second %timeit line
TimeitSecond(r) ==
    /\ prog = "timeit" /\ pc[r] = "t_second"
    /\ loc' = [loc EXCEPT ![r].kind = "Send", ![r].left = TimeitLoops,
                          ![r].ret = "done"]
    /\ pc' = [pc EXCEPT ![r] = "call"]
    /\ UNCHANGED <<prog, size, chan, coll, entered>>

(***************************************************************************)
(* send-vs-send.ipynb, measure_one(size, target_time=1, kind=kind), called *)
(* on every rank by rc[:].apply_sync:                                      *)
(*   comm.Barrier()                                                        *)
(*   ping_pong_repeat(size, 10, **kwargs)                                  *)
(*   if rank == 0:                                                         *)
(*       iterations = 0 if duration > target_time else int(10 * scale)     *)
(*       comm.send(iterations, dest=1)                                     *)
(*   elif rank == 1: iterations = comm.recv(source=0)                      *)
(*   if iterations:                                                        *)
(*       comm.Barrier(); ping_pong_repeat(size, iterations, **kwargs)      *)
(*       comm.Barrier()                                                    *)
(* and ping_pong_repeat(size, iterations, kind):                           *)
(*   arr = np.random.random(size) if rank == 0 else np.empty(size)         *)
(*   f = ping_pong_send / ping_pong_Send by kind, else raise ValueError    *)
(*   for i in range(iterations): f(arr)                                    *)
(* loc[r].n is the argument size, loc[r].kwkind the argument kind.         *)
(***************************************************************************)
\* the number of calls of the trial run: ping_pong_repeat(size, 10, **kwargs)
TrialCalls == 10

\* the values of `kind` measure_one is called with, and one it is not
Kinds == {"send", "Send", "SEND"}

\* the iteration counts rank 0 may derive from the trial run's duration:
\* 0 when it exceeded target_time, else int(10 * scale) with scale >= 1
IterationChoices == {0} \cup (TrialCalls .. MaxIterations)

\* `if iterations:` on an int
TruthyMut(obj) == obj.v > TrialCalls
Truthy(obj) == obj.v # 0

\* kind == "send" or kind == "Send": ping_pong_repeat finds its f, and does
\* not reach `raise ValueError(f"{kind=}")`
KnownKindMut(k) == k # "none"
KnownKind(k) == k \in {"send", "Send"}

InitMeasureOne ==
    \E n \in 1 .. MaxArr, k \in Kinds :
        /\ InitGroup("measure_one", ClusterN, "m_bar1")
        /\ loc = [r \in Ranks(ClusterN) |->
                    [arr |-> PyNone, n |-> n, kwkind |-> k, iterations |-> PyNone,
                     kind |-> "none", left |-> 0, ret |-> "none",
                     sent |-> NoHistory, delivered |-> NoHistory]]

\* comm.Barrier(): the call
MeasureBarrier(r) ==
    /\ prog = "measure_one" /\ pc[r] \in {"m_bar1", "m_bar2", "m_bar3"}
    /\ entered' = BarrierEnter(entered, r)
    /\ pc' = [pc EXCEPT ![r] = CASE pc[r] = "m_bar1" -> "m_wait1"
                                 [] pc[r] = "m_bar2" -> "m_wait2"
                                 [] OTHER -> "m_wait3"]
    /\ UNCHANGED <<prog, size, loc, chan, coll>>

\* comm.Barrier(): the return
MeasureRelease(r) ==
    /\ prog = "measure_one" /\ pc[r] \in {"m_wait1", "m_wait2", "m_wait3"}
    /\ BarrierOpen(entered, size, r)
    /\ pc' = [pc EXCEPT ![r] = CASE pc[r] = "m_wait1" -> "m_trial"
                                 [] pc[r] = "m_wait2" -> "m_timed"
                                 [] OTHER -> "done"]
    /\ UNCHANGED <<prog, size, loc, chan, coll, entered>>

\* ping_pong_repeat up to its loop: the trial run (10 calls) or the timed run
PingPongRepeat(r) ==
    /\ prog = "measure_one" /\ pc[r] \in {"m_trial", "m_timed"}
    /\ LET calls == IF pc[r] = "m_trial" THEN TrialCalls ELSE loc[r].iterations.v
           after == IF pc[r] = "m_trial" THEN "m_decide" ELSE "m_bar3"
       IN  \E a \in (IF r = 0 THEN np_random(loc[r].n) ELSE np_empty(loc[r].n)) :
             IF KnownKind(loc[r].kwkind)
             THEN /\ loc' = [loc EXCEPT ![r].arr = a, ![r].kind = loc[r].kwkind,
                                        ![r].left = calls, ![r].ret = after]
                  /\ pc' = [pc EXCEPT ![r] = IF calls > 0 THEN "call" ELSE after]
             ELSE /\ loc' = [loc EXCEPT ![r].arr = a]
                  /\ pc' = [pc EXCEPT ![r] = "ValueError"]
    /\ UNCHANGED <<prog, size, chan, coll, entered>>

\* rank 0 sets iterations from the trial's duration and sends it to rank 1
Decide(r) ==
    /\ prog = "measure_one" /\ pc[r] = "m_decide" /\ r = 0
    /\ \E it \in IterationChoices :
          /\ loc' = [loc EXCEPT ![r].iterations = PyInt(it)]
          /\ chan' = send(chan, r, 1, PyInt(it))
          /\ pc' = [pc EXCEPT ![r] = IF Truthy(PyInt(it)) THEN "m_bar2" ELSE "done"]
    /\ UNCHANGED <<prog, size, coll, entered>>

\* rank 1: iterations = comm.recv(source=0)
RecvIterations(r) ==
    /\ prog = "measure_one" /\ pc[r] = "m_decide" /\ r = 1
    /\ CanRecv(chan, 0, r)
    /\ loc' = [loc EXCEPT ![r].iterations = Delivered(chan, 0, r)]
    /\ chan' = Consume(chan, 0, r)
    /\ pc' = [pc EXCEPT ![r] = IF Delivered(chan, 0, r).t # "int" THEN "TypeError"
                               ELSE IF Truthy(Delivered(chan, 0, r)) THEN "m_bar2"
                               ELSE "done"]
    /\ UNCHANGED <<prog, size, coll, entered>>

(***************************************************************************)
(* dolfinx_MPI_tutorial.ipynb: the ghost exchange of the assembled vector  *)
(* _b on the 2-rank group.                                                 *)
(*   _b.x.scatter_reverse(dfx.la.InsertMode.add)                           *)
(*   _b.x.scatter_forward()                                                *)
(* The index map is the one the notebook prints: rank 0 owns 4 entries     *)
(* (global 0..3) and ghosts [5 6 4 7], rank 1 owns 5 entries (global 4..8) *)
(* and ghosts [3 1 2].  _b.x.array holds the owned entries followed by the *)
(* ghost slots.  Values are in units of 1/24 (0.04166667 is 1).            *)
(* Every cell ends with mpi_print(_b.x.array): loc[r].stdout is the        *)
(* sequence of arrays rank r has printed, each with the cell's heading.    *)
(***************************************************************************)
\* cluster = ipp.Cluster(engines = "mpi", n = 2)
DolfinxN == 2

\* V.dofmap.index_map.size_local
size_local(r) == IF r = 0 THEN 4 ELSE 5

\* V.dofmap.index_map.ghosts: the global indices of the ghost slots
ghosts(r) == IF r = 0 THEN <<5, 6, 4, 7>> ELSE <<3, 1, 2>>

\* u.x.index_map.owners: the owning rank of each ghost slot
owners(r) == IF r = 0 THEN <<1, 1, 1, 1>> ELSE <<0, 0, 0>>

\* the global index of the first entry rank r owns
Offset(r) == IF r = 0 THEN 0 ELSE size_local(0)

\* _b.x.array as printed after assembly, prior to communication
Assembled(r) ==
    IF r = 0 THEN <<1, 3, 2, 1, 2, 3, 0, 0>> ELSE <<2, 1, 3, 3, 1, 2, 0, 0>>

GhostSlots(r) == 1 .. Len(ghosts(r))

\* the ranks that own a ghost of rank q, and the ranks that ghost an entry of r
OwnersOf(q) == {owners(q)[j] : j \in GhostSlots(q)}
GhostersOf(r) == {q \in Ranks(DolfinxN) : r \in OwnersOf(q)}

\* what rank q sends to owner r in scatter_reverse: its ghost slots owned by r
ReverseMessageMut(xv, q, r) ==
    [t |-> "ghost_values",
     v |-> {[g |-> ghosts(q)[j], val |-> 0] :
                j \in {k \in GhostSlots(q) : owners(q)[k] = r}}]
ReverseMessage(xv, q, r) ==
    [t |-> "ghost_values",
     v |-> {[g |-> ghosts(q)[j], val |-> xv[size_local(q) + j]] :
                j \in {k \in GhostSlots(q) : owners(q)[k] = r}}]

\* what owner r sends to rank q in scatter_forward: its entries that q ghosts
ForwardMessageMut(xv, r, q) ==
    [t |-> "owned_values",
     v |-> {[g |-> ghosts(q)[j], val |-> xv[j]] :
                j \in {k \in GhostSlots(q) : owners(q)[k] = r}}]
ForwardMessage(xv, r, q) ==
    [t |-> "owned_values",
     v |-> {[g |-> ghosts(q)[j], val |-> xv[ghosts(q)[j] - Offset(r) + 1]] :
                j \in {k \in GhostSlots(q) : owners(q)[k] = r}}]

\* the value a message carries for global index g (0 when it carries none)
ValueFor(msg, g) ==
    IF \E e \in msg.v : e.g = g THEN (CHOOSE e \in msg.v : e.g = g).val ELSE 0

RECURSIVE SendEach(_, _, _, _)
\* the channels after rank s has sent msgs[d] to every rank d of ds
SendEach(ch, s, ds, msgs) ==
    IF ds = {} THEN ch
    ELSE LET d == CHOOSE d \in ds : TRUE
         IN  SendEach(SendTo(ch, s, d, msgs[d]), s, ds \ {d}, msgs)

RECURSIVE ConsumeEach(_, _, _)
\* the channels after rank d has received the head message of every rank of ss
ConsumeEach(ch, ss, d) ==
    IF ss = {} THEN ch
    ELSE LET q == CHOOSE q \in ss : TRUE
         IN  ConsumeEach(Consume(ch, q, d), ss \ {q}, d)

RECURSIVE SumFrom(_, _, _, _)
\* the sum over the ranks q of qs of the value q's head message carries for g
SumFrom(ch, qs, r, g) ==
    IF qs = {} THEN 0
    ELSE LET q == CHOOSE q \in qs : TRUE
         IN  ValueFor(Delivered(ch, q, r), g) + SumFrom(ch, qs \ {q}, r, g)

\* scatter_reverse(InsertMode.add) on the owner: every owned entry gains the
\* ghost values received for it; the ghost slots are left alone
ReverseAddClearMut(xv, r, ch) ==
    [i \in 1 .. Len(xv) |->
        IF i <= size_local(r)
        THEN xv[i] + SumFrom(ch, GhostersOf(r), r, Offset(r) + i - 1)
        ELSE 0]
ReverseAddMut(xv, r, ch) ==
    [i \in 1 .. Len(xv) |->
        IF i <= size_local(r)
        THEN SumFrom(ch, GhostersOf(r), r, Offset(r) + i - 1)
        ELSE xv[i]]
ReverseAdd(xv, r, ch) ==
    [i \in 1 .. Len(xv) |->
        IF i <= size_local(r)
        THEN xv[i] + SumFrom(ch, GhostersOf(r), r, Offset(r) + i - 1)
        ELSE xv[i]]

\* scatter_forward on a ghosting rank: every ghost slot takes its owner's value
ForwardInsertMut(xv, q, ch) ==
    [i \in 1 .. Len(xv) |->
        IF i > size_local(q)
        THEN xv[i] + ValueFor(Delivered(ch, owners(q)[i - size_local(q)], q),
                              ghosts(q)[i - size_local(q)])
        ELSE xv[i]]
ForwardInsert(xv, q, ch) ==
    [i \in 1 .. Len(xv) |->
        IF i > size_local(q)
        THEN ValueFor(Delivered(ch, owners(q)[i - size_local(q)], q),
                      ghosts(q)[i - size_local(q)])
        ELSE xv[i]]

\* the ghost slots after assembly: as printed, or any partial values
GhostInit(r) ==
    {[j \in GhostSlots(r) |-> Assembled(r)[size_local(r) + j]]}
        \cup [GhostSlots(r) -> 0 .. MaxVal]

\* mpi_print(_b.x.array) under the heading the cell prints first
mpi_print(out, heading, xv) == Append(out, [heading |-> heading, x |-> xv])

\* the number of scatter_reverse / scatter_forward cycles rank r has completed
CyclesDone(r) == (Len(loc[r].stdout) - 1) \div 2

InitDolfinx ==
    \E g0 \in GhostInit(0), g1 \in GhostInit(1) :
        /\ InitGroup("dolfinx", DolfinxN, "dfx_assembled")
        /\ loc = [r \in Ranks(DolfinxN) |->
                    LET xv == [i \in 1 .. Len(Assembled(r)) |->
                                 IF i <= size_local(r) THEN Assembled(r)[i]
                                 ELSE (IF r = 0 THEN g0 ELSE g1)[i - size_local(r)]]
                    IN  [x |-> xv, stdout |-> mpi_print(<<>>, "assembly", xv)]]

\* scatter_reverse: the ghost values leave for their owners.  The cell runs
\* on the assembled vector, or again after the scatter_forward cell.
ScatterReverseBegin(r) ==
    /\ prog = "dolfinx"
    /\ \/ pc[r] = "dfx_assembled"
       \/ pc[r] = "dfx_forwarded" /\ CyclesDone(r) < MaxCycles
    /\ chan' = SendEach(chan, r, OwnersOf(r),
                        [d \in OwnersOf(r) |-> ReverseMessage(loc[r].x, r, d)])
    /\ pc' = [pc EXCEPT ![r] = "dfx_rev_wait"]
    /\ UNCHANGED <<prog, size, loc, coll, entered>>

\* scatter_reverse: the received ghost values are added to the owned entries;
\* the cell then prints the array
ScatterReverseEnd(r) ==
    /\ prog = "dolfinx" /\ pc[r] = "dfx_rev_wait"
    /\ \A q \in GhostersOf(r) : CanRecv(chan, q, r)
    /\ loc' = [loc EXCEPT
                 ![r].x = ReverseAdd(@, r, chan),
                 ![r].stdout = mpi_print(@, "ADD/REVERSE", ReverseAdd(loc[r].x, r, chan))]
    /\ chan' = ConsumeEach(chan, GhostersOf(r), r)
    /\ pc' = [pc EXCEPT ![r] = "dfx_reversed"]
    /\ UNCHANGED <<prog, size, coll, entered>>

\* scatter_forward: the owned values leave for the ranks that ghost them
ScatterForwardBegin(r) ==
    /\ prog = "dolfinx" /\ pc[r] = "dfx_reversed"
    /\ chan' = SendEach(chan, r, GhostersOf(r),
                        [d \in GhostersOf(r) |-> ForwardMessage(loc[r].x, r, d)])
    /\ pc' = [pc EXCEPT ![r] = "dfx_fwd_wait"]
    /\ UNCHANGED <<prog, size, loc, coll, entered>>

\* scatter_forward: the received owner values overwrite the ghost slots; the
\* cell then prints the array
ScatterForwardEnd(r) ==
    /\ prog = "dolfinx" /\ pc[r] = "dfx_fwd_wait"
    /\ \A q \in OwnersOf(r) : CanRecv(chan, q, r)
    /\ loc' = [loc EXCEPT
                 ![r].x = ForwardInsert(@, r, chan),
                 ![r].stdout = mpi_print(@, "INSERT/FORWARD",
                                         ForwardInsert(loc[r].x, r, chan))]
    /\ chan' = ConsumeEach(chan, OwnersOf(r), r)
    /\ pc' = [pc EXCEPT ![r] = "dfx_forwarded"]
    /\ UNCHANGED <<prog, size, coll, entered>>

(***************************************************************************)
(* dolfinx_MPI_tutorial.ipynb, the assembly cell of the Poisson problem,   *)
(* run by both ranks:                                                      *)
(*   _b = dfx.fem.Function(V)                                              *)
(*   dfx_petsc.assemble_vector(_b.vector, linear_form)                     *)
(*   dfx_petsc.apply_lifting(_b.vector, [bilinear_form], bcs = [bcs])      *)
(*   _b.x.scatter_reverse(dfx.la.InsertMode.add)                           *)
(*   _b.x.scatter_forward()                                                *)
(*   dfx_petsc.set_bc(_b.vector, bcs = bcs)                                *)
(*   mpi_print(_b.x.array)                                                 *)
(* The mesh of this problem is another one (GhostMode.none) and the        *)
(* notebook does not print its index map; the printed arrays have 6        *)
(* entries on both ranks, of which rank 0 owns 4 and rank 1 owns 5, so     *)
(* each rank holds ghosts the other owns and the two scatters exchange one *)
(* message in each direction.  The cell is modelled by its statements and  *)
(* the messages of the scatters; loc[r].steps is the sequence of           *)
(* statements rank r has completed.                                        *)
(***************************************************************************)
\* the ranks that own ghosts of r, which are also those that ghost entries of r
PoissonPeers(r) == Ranks(DolfinxN) \ {r}

\* the position after the statement (or half of a scatter) at position p
NextStatementMut(p) ==
    CASE p = "ps_assemble" -> "ps_lifting"
      [] p = "ps_lifting" -> "ps_set_bc"
      [] p = "ps_set_bc" -> "ps_reverse"
      [] p = "ps_reverse" -> "ps_rev_wait"
      [] p = "ps_rev_wait" -> "ps_forward"
      [] p = "ps_forward" -> "ps_fwd_wait"
      [] p = "ps_fwd_wait" -> "ps_print"
      [] OTHER -> "done"
NextStatement(p) ==
    CASE p = "ps_assemble" -> "ps_lifting"
      [] p = "ps_lifting" -> "ps_reverse"
      [] p = "ps_reverse" -> "ps_rev_wait"
      [] p = "ps_rev_wait" -> "ps_forward"
      [] p = "ps_forward" -> "ps_fwd_wait"
      [] p = "ps_fwd_wait" -> "ps_set_bc"
      [] p = "ps_set_bc" -> "ps_print"
      [] OTHER -> "done"

\* the statement that is complete when position p is left
StatementAt(p) ==
    CASE p = "ps_assemble" -> "assemble_vector"
      [] p = "ps_lifting" -> "apply_lifting"
      [] p = "ps_rev_wait" -> "scatter_reverse"
      [] p = "ps_fwd_wait" -> "scatter_forward"
      [] p = "ps_set_bc" -> "set_bc"
      [] OTHER -> "mpi_print"

InitPoisson ==
    /\ InitGroup("poisson", DolfinxN, "ps_assemble")
    /\ loc = [r \in Ranks(DolfinxN) |-> [steps |-> <<>>]]

\* assemble_vector, apply_lifting, set_bc, mpi_print: local to the rank
PoissonLocal(r) ==
    /\ prog = "poisson"
    /\ pc[r] \in {"ps_assemble", "ps_lifting", "ps_set_bc", "ps_print"}
    /\ loc' = [loc EXCEPT ![r].steps = Append(@, StatementAt(pc[r]))]
    /\ pc' = [pc EXCEPT ![r] = NextStatement(pc[r])]
    /\ UNCHANGED <<prog, size, chan, coll, entered>>

\* scatter_reverse / scatter_forward: the values leave for the peers
PoissonScatterBegin(r) ==
    /\ prog = "poisson" /\ pc[r] \in {"ps_reverse", "ps_forward"}
    /\ chan' = SendEach(chan, r, PoissonPeers(r),
                        [d \in PoissonPeers(r) |->
                            [t |-> IF pc[r] = "ps_reverse" THEN "ghost_values"
                                   ELSE "owned_values",
                             v |-> {}]])
    /\ pc' = [pc EXCEPT ![r] = NextStatement(pc[r])]
    /\ UNCHANGED <<prog, size, loc, coll, entered>>

\* scatter_reverse / scatter_forward: returns once the peers' values are in
PoissonScatterEnd(r) ==
    /\ prog = "poisson" /\ pc[r] \in {"ps_rev_wait", "ps_fwd_wait"}
    /\ \A q \in PoissonPeers(r) : CanRecv(chan, q, r)
    /\ chan' = ConsumeEach(chan, PoissonPeers(r), r)
    /\ loc' = [loc EXCEPT ![r].steps = Append(@, StatementAt(pc[r]))]
    /\ pc' = [pc EXCEPT ![r] = NextStatement(pc[r])]
    /\ UNCHANGED <<prog, size, coll, entered>>

(***************************************************************************)
(* The clusters a notebook starts and stops, from the notebook's kernel    *)
(* (the one process of this program):                                      *)
(*   send-recv.ipynb                                                       *)
(*     rc = ipp.Cluster(engines="mpi", n=2, ...).start_and_connect_sync()  *)
(*     ... %%px cells ...                                                  *)
(*     try: rc.cluster.stop_cluster_sync()                                 *)
(*     except NameError: pass     # rc undefined, not starting from scratch*)
(*     rc = ipp.Cluster(engines="mpi", n=4).start_and_connect_sync()       *)
(*     ... %%px cells ...                                                  *)
(*     rc.cluster.stop_cluster_sync()                                      *)
(*   scatter-gather.ipynb                                                  *)
(*     cluster = ipp.Cluster(engines="mpi", n=3)                           *)
(*     rc = cluster.start_and_connect_sync()                               *)
(*     ... %%px cells to the end of the notebook ...                       *)
(*   send-vs-send.ipynb, dolfinx_MPI_tutorial.ipynb                        *)
(*     cluster = ipp.Cluster(engines="mpi", n=2); rc = ... connect         *)
(*     ... %%px cells ...                                                  *)
(*     rc.cluster.stop_cluster_sync()                                      *)
(* loc[0].rc is the cluster rc is connected to (None while rc is           *)
(* undefined), loc[0].running the clusters that are running,               *)
(* loc[0].started and loc[0].stopped the clusters started and stopped, in  *)
(* order.  A cluster is the record of its start number and engine count.   *)
(***************************************************************************)
Notebooks == {"send-recv", "scatter-gather", "send-vs-send", "dolfinx_MPI_tutorial"}

\* the n of the cluster the notebook starts in its first code cell
FirstClusterN(nb) ==
    CASE nb = "send-recv" -> 2
      [] nb = "scatter-gather" -> 3
      [] nb = "send-vs-send" -> ClusterN
      [] OTHER -> DolfinxN

\* the n of the cluster the restart cell of send-recv.ipynb starts
RestartClusterN == 4

\* the cell that follows the %%px cells run on the first cluster
AfterFirstCells(nb) ==
    CASE nb = "send-recv" -> "nb_restart"
      [] nb = "scatter-gather" -> "nb_end"
      [] OTHER -> "nb_stop"

\* ipp.Cluster(engines="mpi", n=n).start_and_connect_sync()
StartedCluster(l, n) ==
    LET c == [id |-> Len(l.started) + 1, n |-> n]
    IN  [l EXCEPT !.rc = c, !.running = @ \cup {c}, !.started = Append(@, c)]

\* rc.cluster.stop_cluster_sync()
StoppedCluster(l) ==
    [l EXCEPT !.running = @ \ {l.rc}, !.stopped = Append(@, l.rc)]

\* a run starts at the notebook's first cell; send-recv.ipynb may also be
\* picked up at its restart cell, where rc is then undefined
InitNotebook ==
    \E nb \in Notebooks :
        \E start \in {"nb_start"} \cup (IF nb = "send-recv" THEN {"nb_restart"} ELSE {}) :
            /\ InitGroup("notebook", 1, start)
            /\ loc = [r \in Ranks(1) |->
                        [notebook |-> nb, rc |-> PyNone, running |-> {},
                         started |-> <<>>, stopped |-> <<>>]]

\* the first code cell: the cluster is started, then the %%px cells run on it
NbStart(r) ==
    /\ prog = "notebook" /\ pc[r] = "nb_start"
    /\ loc' = [loc EXCEPT ![r] = StartedCluster(@, FirstClusterN(loc[r].notebook))]
    /\ pc' = [pc EXCEPT ![r] = AfterFirstCells(loc[r].notebook)]
    /\ UNCHANGED <<prog, size, chan, coll, entered>>

\* the restart cell of send-recv.ipynb
NbRestart(r) ==
    /\ prog = "notebook" /\ pc[r] = "nb_restart"
    /\ loc' = [loc EXCEPT ![r] =
                  StartedCluster(IF loc[r].rc = PyNone THEN loc[r]
                                 ELSE StoppedCluster(loc[r]),
                                 RestartClusterN)]
    /\ pc' = [pc EXCEPT ![r] = "nb_stop"]
    /\ UNCHANGED <<prog, size, chan, coll, entered>>

\* the last code cell: rc.cluster.stop_cluster_sync()
NbStop(r) ==
    /\ prog = "notebook" /\ pc[r] = "nb_stop"
    /\ loc' = [loc EXCEPT ![r] = StoppedCluster(@)]
    /\ pc' = [pc EXCEPT ![r] = "nb_end"]
    /\ UNCHANGED <<prog, size, chan, coll, entered>>

(***************************************************************************)
(* The specification.                                                      *)
(***************************************************************************)
Init ==
    \/ InitRankSize
    \/ InitNotebook
    \/ InitSendRecv
    \/ InitSendRecvBuf
    \/ InitPingPong
    \/ InitRing
    \/ InitRingBuf
    \/ InitScatterGather
    \/ InitScatterAny
    \/ InitTimed
    \/ InitTimeit
    \/ InitMeasureOne
    \/ InitDolfinx
    \/ InitPoisson

Next ==
    \E r \in Ranks(size) :
        \/ RankSizeCell(r)
        \/ NbStart(r)
        \/ NbRestart(r)
        \/ NbStop(r)
        \/ SendRecvRank0(r)
        \/ SendRecvRank1(r)
        \/ SendRecvOther(r)
        \/ SendRecvBufRank0(r)
        \/ SendRecvBufAlloc(r)
        \/ SendRecvBufRank1(r)
        \/ SendRecvBufOther(r)
        \/ PingPongAssert(r)
        \/ PingPongSend(r)
        \/ PingPongRecv(r)
        \/ PingPongBarrier(r)
        \/ PingPongRelease(r)
        \/ RingRecv(r)
        \/ RingSend(r)
        \/ RingFinal(r)
        \/ RingBufRecv(r)
        \/ RingBufSend(r)
        \/ RingBufFinal(r)
        \/ ScatterRoot(r)
        \/ ScatterRecv(r)
        \/ Modify(r)
        \/ GatherSend(r)
        \/ GatherRoot(r)
        \/ TimedData(r)
        \/ TimedAlloc(r)
        \/ TimedScatterRoot(r)
        \/ TimedScatterRecv(r)
        \/ TimedModify(r)
        \/ TimedGatherSend(r)
        \/ TimedGatherRoot(r)
        \/ Ping(r)
        \/ RecvReply(r)
        \/ RecvPing(r)
        \/ Pong(r)
        \/ TimeitFirst(r)
        \/ TimeitSecond(r)
        \/ MeasureBarrier(r)
        \/ MeasureRelease(r)
        \/ PingPongRepeat(r)
        \/ Decide(r)
        \/ RecvIterations(r)
        \/ ScatterReverseBegin(r)
        \/ ScatterReverseEnd(r)
        \/ ScatterForwardBegin(r)
        \/ ScatterForwardEnd(r)
        \/ PoissonLocal(r)
        \/ PoissonScatterBegin(r)
        \/ PoissonScatterEnd(r)

Spec == Init /\ [][Next]_vars

(***************************************************************************)
(* Every rank is a process of its own on its own engine, and a cell runs   *)
(* on all engines at once: a step that stays possible is eventually taken. *)
(***************************************************************************)
FairSpec == Spec /\ WF_vars(Next)

(***************************************************************************)
(* Properties of the scatter-gather program.                               *)
(***************************************************************************)
Scattered(r) == pc[r] \in {"sg_modify", "sg_gather", "done"}

\* C1: once comm.scatter has returned on rank r, scattered_data on rank r is
\* element r of the sequence root passed (root holds exactly one element per
\* rank, every other rank passed None).
C1_ScatterElement ==
    prog = "scatter_gather" =>
        \A r \in Ranks(size) :
            Scattered(r) =>
                /\ loc[root].data.t = "list"
                /\ Len(loc[root].data.v) = size
                /\ r # root => loc[r].data = PyNone
                /\ loc[r].scattered_data = loc[root].data.v[r + 1]

C1_Witness ==
    /\ prog = "scatter_gather" /\ size >= 3
    /\ \A r \in Ranks(size) : pc[r] = "sg_modify"

\* C2: once comm.gather has returned on every rank, root's result is a list
\* of length size whose entry i is the value rank i contributed, unchanged,
\* and the result on every other rank is None.
C2_GatherResult ==
    (prog = "scatter_gather" /\ \A r \in Ranks(size) : pc[r] = "done") =>
        /\ loc[root].gathered_data.t = "list"
        /\ Len(loc[root].gathered_data.v) = size
        /\ \A i \in Ranks(size) :
              loc[root].gathered_data.v[i + 1] = loc[i].modified_data
        /\ \A r \in Ranks(size) \ {root} : loc[r].gathered_data = PyNone

C2_Witness ==
    /\ prog = "scatter_gather" /\ size >= 2
    /\ \A r \in Ranks(size) : pc[r] = "done"
    /\ loc[root].gathered_data.t = "list"

\* C3: gathering at root the elements the scatter delivered, unmodified,
\* gives back root's sequence, element for element and in the same order.
C3_RoundTrip ==
    (prog = "scatter_gather" /\ \A r \in Ranks(size) : Scattered(r)) =>
        GatherAtRoot([q \in Ranks(size) |-> <<loc[q].scattered_data>>],
                     loc[root].scattered_data, root, size) = loc[root].data

C3_Witness ==
    /\ prog = "scatter_gather" /\ size >= 2
    /\ \A r \in Ranks(size) : Scattered(r)
    /\ pc[root] = "sg_gather"
    /\ \E r \in Ranks(size) : pc[r] = "sg_modify"

\* C4: with data[i] = (i+1)^2 on root 0, root finally holds (i+1)^2 + i for
\* i in 0..N-1; for N = 3 rank 2 holds 9 after the scatter and root finally
\* holds [1, 5, 11].
C4_ScatterModifyGather ==
    prog = "scatter_gather" =>
        /\ pc[root] = "done" =>
              loc[root].gathered_data =
                  PyList([i \in 1 .. size |-> PyInt(i * i + (i - 1))])
        /\ size = 3 =>
              /\ Scattered(2) => loc[2].scattered_data = PyInt(9)
              /\ pc[root] = "done" =>
                    loc[root].gathered_data = PyList(<<PyInt(1), PyInt(5), PyInt(11)>>)

C4_Witness ==
    /\ prog = "scatter_gather" /\ size = 3
    /\ pc[root] = "done"
    /\ loc[2].scattered_data = PyInt(9)

\* root passes comm.scatter a list whose length differs from the group size
WrongLength == prog = "scatter_any" /\ Len(loc[root].seq.v) # size

C5_PayloadReceived ==
    /\ prog = "send_recv" =>
          \A r \in {0, 1} : pc[r] = "done" => loc[r].number = PyInt(-1)
    /\ (prog = "Send_Recv" /\ pc[1] = "done") =>
          /\ loc[1].arr.t = "ndarray"
          /\ Len(loc[1].arr.v) = arr_size
          /\ \A i \in 1 .. arr_size :
                loc[1].arr.v[i] = loc[0].arr.v[i] /\ loc[1].arr.v[i] = i - 1

C5_Witness ==
    /\ prog = "Send_Recv" /\ pc[0] = "done" /\ pc[1] = "done"
    /\ loc[1].arr = loc[0].arr

\* the bytes b"01...k" for k <= 9
DigitsTo(k) == PyBytes([i \in 1 .. (k + 1) |-> Ascii0 + (i - 1)])

\* C6: in the ring, rank r # 0 receives the digits 0..r-1 in order from rank
\* r-1, and rank 0 finally receives the digits 0..N-1 (b'0123' for N = 4).
C6_RingTokens ==
    prog = "ring" =>
        /\ \A r \in Ranks(size) \ {0} :
              pc[r] = "ring_send" => loc[r].token = DigitsTo(r - 1)
        /\ pc[0] = "done" => loc[0].token = DigitsTo(size - 1)
        /\ (size = 4 /\ pc[0] = "done") =>
              loc[0].token = PyBytes(<<48, 49, 50, 51>>)

C6_Witness ==
    /\ prog = "ring" /\ size = 4
    /\ pc[0] = "done"
    /\ loc[0].token.v = <<48, 49, 50, 51>>

\* rank r's send of the ring has been issued
RingSent(r) == pc[r] \in (IF r = 0 THEN {"ring_final", "done"} ELSE {"done"})

\* rank r's receive of the ring has returned (on rank 0: the final receive)
RingReceived(r) ==
    pc[r] \in (IF r = 0 THEN {"done", "MPI_ERR_TRUNCATE"}
               ELSE {"ring_send", "done", "MPI_ERR_TRUNCATE"})

\* C14: in both ring programs a receive has returned only if the matching
\* send was issued: rank r # 0 has received only if rank r-1 has sent, rank r
\* has sent only if rank r-1 has (the sends occur in rank order 0, ..., N-1),
\* and rank 0's final receive has returned only if rank N-1 has sent.
C14_RingOrder ==
    prog \in {"ring", "Ring"} =>
        /\ \A r \in Ranks(size) \ {0} :
              /\ RingReceived(r) => RingSent(r - 1)
              /\ RingSent(r) => RingReceived(r) /\ RingSent(r - 1)
        /\ RingReceived(0) => RingSent(size - 1)

C14_Witness ==
    /\ prog = "Ring" /\ size = 4
    /\ pc[0] = "ring_final" /\ pc[1] = "done" /\ pc[2] = "ring_send"
    /\ pc[3] = "ring_start"

(***************************************************************************)
(* Properties of the ping-pong implementations of send-vs-send.ipynb.      *)
(***************************************************************************)
\* C7: for the same payload arr, what each receive of ping_pong_send
\* delivers is identical to what the corresponding receive of ping_pong_Send
\* delivers, at rank 1 (forward leg) and at rank 0 (return leg).
C7_SameDelivered ==
    prog = "timeit" =>
        \A r \in Ranks(size) :
            (loc[r].delivered.send.t # "None" /\ loc[r].delivered.Send.t # "None")
                => loc[r].delivered.send.v = loc[r].delivered.Send.v

\* what does hold: the forward leg delivers rank 0's arr under both
\* implementations
C7_ForwardLegSame ==
    (prog = "timeit"
        /\ loc[1].delivered.send.t # "None" /\ loc[1].delivered.Send.t # "None")
            => loc[1].delivered.send.v = loc[1].delivered.Send.v

\* C8: in both implementations the reply rank 0 receives equals the message
\* rank 0 sent (rank 1 sends right back what it has just received).
C8_ReplyIsEcho ==
    (prog \in {"timeit", "measure_one"} /\ pc[0] # "reply") =>
        \A k \in {"send", "Send"} :
            loc[0].delivered[k].t # "None" =>
                loc[0].delivered[k].v = loc[0].sent[k].v

\* what does hold: ping_pong_Send echoes
C8_SendEchoes ==
    (prog \in {"timeit", "measure_one"} /\ pc[0] # "reply"
        /\ loc[0].delivered.Send.t # "None") =>
            loc[0].delivered.Send.v = loc[0].sent.Send.v

\* C13: in measure_one rank 1's `iterations = comm.recv(source=0)` returns
\* the integer iteration count rank 0 computed and sent, never an array of
\* the ping-pong exchanges that precede it on the same channel.
C13_IterationsInOrder ==
    prog = "measure_one" =>
        /\ pc[1] # "TypeError"
        /\ loc[1].iterations.t # "None" =>
              /\ loc[1].iterations.t = "int"
              /\ loc[1].iterations = loc[0].iterations

C13_Witness ==
    /\ prog = "measure_one"
    /\ loc[1].iterations.t = "int" /\ loc[1].iterations.v >= TrialCalls
    /\ loc[1].delivered.send.t = "ndarray"
    /\ loc[0].sent.send.t = "ndarray"

\* the number of calls f(arr) rank r has completed: in the %timeit cell the
\* calls of the first line and of the second, in measure_one those of the
\* trial run and of the timed run
Exchanges(r) ==
    IF prog = "timeit"
    THEN CASE loc[r].kind = "none" -> 0
           [] loc[r].kind = "send" -> TimeitLoops - loc[r].left
           [] OTHER -> 2 * TimeitLoops - loc[r].left
    ELSE CASE loc[r].ret = "none" -> 0
           [] loc[r].ret = "m_decide" -> TrialCalls - loc[r].left
           [] OTHER -> TrialCalls + loc[r].iterations.v - loc[r].left

\* rank r has left the program, normally or with an exception
Finished(r) == pc[r] \in {"done", "ValueError", "TypeError"}

\* C19: rank 0 and rank 1 execute the same number of ping-pong exchanges.
\* Rank 1 completes each exchange first and is never more than one ahead;
\* in measure_one rank 1 uses the iteration count rank 0 decided; when both
\* ranks have finished they have completed the same number of exchanges;
\* and the program never comes to rest with a rank still inside an exchange
\* (or a barrier) that the other rank does not take part in.
C19_SameExchangeCount ==
    prog \in {"timeit", "measure_one"} =>
        /\ Exchanges(0) <= Exchanges(1) /\ Exchanges(1) <= Exchanges(0) + 1
        /\ (prog = "measure_one" /\ loc[1].iterations.t # "None") =>
              loc[1].iterations = loc[0].iterations
        /\ (Finished(0) /\ Finished(1)) => Exchanges(0) = Exchanges(1)
        /\ ~ENABLED Next => Finished(0) /\ Finished(1)

C19_Witness ==
    /\ prog = "measure_one"
    /\ pc[0] = "done" /\ pc[1] = "done"
    /\ Exchanges(0) > TrialCalls /\ Exchanges(1) = Exchanges(0)

(***************************************************************************)
(* Properties of comm.Barrier().                                           *)
(***************************************************************************)
\* the number of barriers rank r has been released from
Passed(r) ==
    IF pc[r] \in {"pp_wait", "m_wait1", "m_wait2", "m_wait3"}
    THEN entered[r] - 1 ELSE entered[r]

\* rank r has completed its send or receive of round i of the ping-pong loop
RoundDone(r, i) ==
    \/ loc[r].i > i
    \/ loc[r].i = i /\ pc[r] \in {"pp_barrier", "pp_wait"}

\* C9: no rank is released from its k-th comm.Barrier() before every rank
\* has called its k-th; in the ping-pong loop no rank starts round i+1 before
\* every rank has completed its send or receive of round i.
C9_BarrierRendezvous ==
    /\ \A r, q \in Ranks(size) : Passed(r) <= entered[q]
    /\ prog = "ping_pong" =>
          \A r, q \in Ranks(size) :
              \A i \in 0 .. (NRounds - 1) :
                  loc[r].i >= i + 1 => RoundDone(q, i)

C9_Witness ==
    /\ prog = "ping_pong" /\ size = 2
    /\ loc[0].i = 2 /\ pc[0] = "pp_loop"
    /\ loc[1].i = 1 /\ pc[1] = "pp_wait"

(***************************************************************************)
(* Properties of the ghost exchange.                                       *)
(***************************************************************************)
\* the value the owner holds for ghost slot j of rank q
OwnerValue(q, j) ==
    loc[owners(q)[j]].x[ghosts(q)[j] - Offset(owners(q)[j]) + 1]

\* C10: after scatter_reverse(add) and scatter_forward() have completed on
\* every rank, every ghost slot of every rank holds the value its owning
\* rank holds for that entry.
C10_GhostsMatchOwners ==
    (prog = "dolfinx" /\ \A r \in Ranks(size) : pc[r] = "dfx_forwarded") =>
        \A q \in Ranks(size) :
            \A j \in GhostSlots(q) :
                loc[q].x[size_local(q) + j] = OwnerValue(q, j)

\* the arrays the notebook prints after the INSERT/FORWARD update
C10_Witness ==
    /\ prog = "dolfinx"
    /\ \A r \in Ranks(size) : pc[r] = "dfx_forwarded"
    /\ loc[0].x = <<1, 3, 2, 3, 3, 6, 2, 3>>
    /\ loc[1].x = <<2, 3, 6, 3, 1, 3, 3, 2>>

\* the number of ranks that hold a ghost of global index g
NumGhosters(g) ==
    Cardinality({q \in Ranks(DolfinxN) : \E j \in GhostSlots(q) : ghosts(q)[j] = g})

\* the global index of position i of rank r's array
GlobalIndex(r, i) ==
    IF i <= size_local(r) THEN Offset(r) + i - 1 ELSE ghosts(r)[i - size_local(r)]

\* the array rank r printed at the end of cycle c (c = 0: after assembly)
AfterCycle(r, c) == loc[r].stdout[2 * c + 1].x

\* the array rank r printed after the scatter_reverse of cycle c
AfterReverse(r, c) == loc[r].stdout[2 * c].x

\* C11 as claimed: a second cycle (scatter_reverse(add), scatter_forward) run
\* right after the first leaves every owned and every ghost value as the
\* first cycle left it.
C11_SecondCycleUnchanged ==
    prog = "dolfinx" =>
        \A r \in Ranks(size) :
            CyclesDone(r) >= 2 /\ pc[r] = "dfx_forwarded" =>
                AfterCycle(r, 2) = AfterCycle(r, 1)

\* C11 as amended: a further cycle leaves unchanged the entries no other
\* rank ghosts; an entry ghosted by k other ranks becomes (k+1) times its
\* value after the previous cycle, on the owner and in every ghost slot.
C11_SecondCycleAccumulates ==
    prog = "dolfinx" =>
        \A r \in Ranks(size) :
            \A c \in 2 .. (MaxCycles + 1) :
                (CyclesDone(r) >= c /\ (CyclesDone(r) > c \/ pc[r] = "dfx_forwarded")) =>
                    \A i \in 1 .. Len(loc[r].x) :
                        AfterCycle(r, c)[i] =
                            (1 + NumGhosters(GlobalIndex(r, i))) * AfterCycle(r, c - 1)[i]

C11_Witness ==
    /\ prog = "dolfinx"
    /\ \A r \in Ranks(size) : pc[r] = "dfx_forwarded" /\ CyclesDone(r) = 2
    /\ AfterCycle(0, 1) = <<1, 3, 2, 3, 3, 6, 2, 3>>
    /\ AfterCycle(0, 2) = <<1, 6, 4, 6, 6, 12, 4, 6>>

RECURSIVE GhostSum(_, _, _)
\* the sum, over the ranks q of qs, of the value q printed before the
\* scatter_reverse of cycle c in its ghost slot for global index g
GhostSum(qs, c, g) ==
    IF qs = {} THEN 0
    ELSE LET q == CHOOSE q \in qs : TRUE
             held == {j \in GhostSlots(q) : ghosts(q)[j] = g}
         IN  (IF held = {} THEN 0
              ELSE AfterCycle(q, c - 1)[size_local(q) + (CHOOSE j \in held : TRUE)])
             + GhostSum(qs \ {q}, c, g)

\* C12: after scatter_reverse(add) every owned entry on its owning rank is
\* its value before the step plus the sum of the values the other ranks held
\* in their ghost slots for that entry before the step.
C12_ReverseAccumulates ==
    prog = "dolfinx" =>
        \A r \in Ranks(size) :
            \A c \in 1 .. (MaxCycles + 1) :
                Len(loc[r].stdout) >= 2 * c =>
                    \A i \in 1 .. size_local(r) :
                        AfterReverse(r, c)[i] =
                            AfterCycle(r, c - 1)[i]
                                + GhostSum(Ranks(size) \ {r}, c, Offset(r) + i - 1)

\* the arrays the notebook prints after the ADD/REVERSE update
C12_Witness ==
    /\ prog = "dolfinx"
    /\ \A r \in Ranks(size) : pc[r] = "dfx_reversed" /\ CyclesDone(r) = 0
    /\ AfterCycle(0, 0) = <<1, 3, 2, 1, 2, 3, 0, 0>>
    /\ loc[0].x = <<1, 3, 2, 3, 2, 3, 0, 0>>
    /\ loc[1].x = <<2, 3, 6, 3, 1, 2, 0, 0>>

\* the positions of rank r's array that are ghost slots
GhostPositions(r) == (size_local(r) + 1) .. (size_local(r) + Len(ghosts(r)))

\* C29: scatter_reverse(add) changes only owned entries: on every rank each
\* ghost slot holds after the step the value it held before it, and the
\* array changes at no other moment of the step (it is what was last
\* printed).
C29_ReverseKeepsGhosts ==
    prog = "dolfinx" =>
        \A r \in Ranks(size) :
            /\ loc[r].x = loc[r].stdout[Len(loc[r].stdout)].x
            /\ \A c \in 1 .. (MaxCycles + 1) :
                  Len(loc[r].stdout) >= 2 * c =>
                      /\ loc[r].stdout[2 * c].heading = "ADD/REVERSE"
                      /\ Len(AfterReverse(r, c)) = Len(AfterCycle(r, c - 1))
                      /\ \A i \in GhostPositions(r) :
                            AfterReverse(r, c)[i] = AfterCycle(r, c - 1)[i]

\* rank 1 after the ADD/REVERSE update the notebook prints: its ghost slots
\* still hold the assembled 2, 0, 0
C29_Witness ==
    /\ prog = "dolfinx"
    /\ pc[1] = "dfx_reversed" /\ Len(loc[1].stdout) = 2
    /\ AfterCycle(1, 0) = <<2, 1, 3, 3, 1, 2, 0, 0>>
    /\ AfterReverse(1, 1) = <<2, 3, 6, 3, 1, 2, 0, 0>>

\* C30: scatter_forward() changes only ghost slots: every owned entry holds
\* after the step the value it held before it, and every ghost slot holds
\* the value its owner held for that entry after scatter_reverse (it is
\* overwritten, not added to).
C30_ForwardKeepsOwned ==
    prog = "dolfinx" =>
        \A r \in Ranks(size) :
            \A c \in 1 .. (MaxCycles + 1) :
                Len(loc[r].stdout) >= 2 * c + 1 =>
                    /\ loc[r].stdout[2 * c + 1].heading = "INSERT/FORWARD"
                    /\ Len(AfterCycle(r, c)) = Len(AfterReverse(r, c))
                    /\ \A i \in 1 .. size_local(r) :
                          AfterCycle(r, c)[i] = AfterReverse(r, c)[i]
                    /\ \A j \in GhostSlots(r) :
                          /\ Len(loc[owners(r)[j]].stdout) >= 2 * c
                          /\ AfterCycle(r, c)[size_local(r) + j] =
                                AfterReverse(owners(r)[j], c)
                                    [ghosts(r)[j] - Offset(owners(r)[j]) + 1]

\* rank 0 after the INSERT/FORWARD update the notebook prints: its ghost
\* slots went from 2, 3, 0, 0 to rank 1's 3, 6, 2, 3
C30_Witness ==
    /\ prog = "dolfinx"
    /\ pc[0] = "dfx_forwarded" /\ Len(loc[0].stdout) = 3
    /\ AfterReverse(0, 1) = <<1, 3, 2, 3, 2, 3, 0, 0>>
    /\ AfterCycle(0, 1) = <<1, 3, 2, 3, 3, 6, 2, 3>>
    /\ AfterReverse(1, 1) = <<2, 3, 6, 3, 1, 2, 0, 0>>

(***************************************************************************)
(* Properties of the point-to-point programs as a whole.                   *)
(***************************************************************************)
\* the run is one of the 2-rank ping-pong programs: the ping-pong cell of
\* send-recv.ipynb on 2 ranks, the %timeit lines calling ping_pong_send and
\* ping_pong_Send, or measure_one
TwoRankPingPong ==
    \/ prog = "ping_pong" /\ size = 2
    \/ prog \in {"timeit", "measure_one"}

\* C33: at every point of the 2-rank ping-pong programs at most one message
\* is in flight on each ordered channel (rank 0 to rank 1, rank 1 to rank 0),
\* and the two channels never hold a message at the same time.
C33_OneInFlight ==
    TwoRankPingPong =>
        /\ size = 2
        /\ \A s \in Ranks(size), d \in Ranks(size) : Len(chan[<<s, d>>]) <= 1
        /\ Len(chan[<<0, 1>>]) + Len(chan[<<1, 0>>]) <= 1
        /\ chan[<<0, 0>>] = <<>> /\ chan[<<1, 1>>] = <<>>

\* rank 1 has answered the last ping of measure_one's timed run and rank 0
\* has not received the answer yet
C33_Witness ==
    /\ prog = "measure_one"
    /\ loc[1].iterations = PyInt(MaxIterations)
    /\ pc[1] = "m_bar3" /\ pc[0] = "reply"
    /\ Len(chan[<<1, 0>>]) = 1 /\ Len(chan[<<0, 1>>]) = 0

\* the example programs that exchange point-to-point messages
P2PProgs == {"send_recv", "Send_Recv", "ping_pong", "ring", "Ring", "timeit", "measure_one"}

\* C34: when an example program (send/recv, ping-pong, ring, measure_one) has
\* finished on all ranks, no sent message remains undelivered: every channel
\* from s to d is empty, that is, d has completed as many receives from s as
\* s has made sends to d (a send adds one message to the channel, a completed
\* receive removes one).
C34_AllDelivered ==
    (prog \in P2PProgs /\ \A r \in Ranks(size) : pc[r] = "done") =>
        \A s \in Ranks(size), d \in Ranks(size) : Len(chan[<<s, d>>]) = 0

\* the 4-rank ring has finished: the token went round and rank 0 received it
C34_Witness ==
    /\ prog = "ring" /\ size = 4
    /\ \A r \in Ranks(size) : pc[r] = "done"
    /\ loc[0].token = PyBytes(<<Ascii0, Ascii0 + 1, Ascii0 + 2, Ascii0 + 3>>)
    /\ chan[<<3, 0>>] = <<>>

(***************************************************************************)
(* Properties of the timed scatter/gather cells of scatter-gather.ipynb.   *)
(***************************************************************************)
\* the values of the sequence rank r holds as the result of the last gather:
\* the items of the list gth_data, or the elements of gth_buffer
GatheredValues(r) ==
    IF prog = "scatter_timed"
    THEN [i \in 1 .. Len(loc[r].gth_data.v) |-> loc[r].gth_data.v[i].v]
    ELSE loc[r].gth_buffer.v

\* C31: from the same data = arange(N) the object variant (scatter / gather)
\* and the buffer variant (Scatter / Gather into pre-allocated buffers) give
\* root the same gathered sequence, 4*i for i in 0..N-1, every time root has
\* run the body; data is left as it was, and root does run the body.
C31_SameGathered ==
    prog \in TimedProgs =>
        /\ loc[root].runs >= 1 =>
              /\ GatheredValues(root) = [i \in 1 .. size |-> 4 * (i - 1)]
              /\ loc[root].data = np_arange(size)
        /\ ~ENABLED Next => loc[root].runs >= 1

C31_Witness ==
    /\ prog = "Scatter_timed" /\ size = 3
    /\ \A r \in Ranks(size) : pc[r] = "done" /\ loc[r].runs = MaxLoops
    /\ loc[root].gth_buffer = NdArray(<<0, 4, 8>>)
    /\ loc[2].recv_buffer = NdArray(<<8>>)

\* C32: in the %%timeit-repeated scatter/gather cells all ranks run the timed
\* body the same number of times: when no rank can take a step every rank has
\* finished its cell (none waits in a collective the others never enter),
\* with the same number of runs as root, and no scattered or gathered item is
\* left over.
C32_SameRepetitions ==
    (prog \in TimedProgs /\ ~ENABLED Next) =>
        \A r \in Ranks(size) :
            /\ pc[r] = "done"
            /\ loc[r].runs = loc[root].runs
            /\ coll.scatter[r] = <<>>
            /\ coll.gather[r] = <<>>

(***************************************************************************)
(* Properties of the ping-pong cell of send-recv.ipynb.                    *)
(***************************************************************************)
\* no message is waiting on any channel
NoneInFlight == \A p \in DOMAIN chan : chan[p] = <<>>

\* C21: with an even group size the ping-pong cell runs to completion: when
\* no rank can take a step, every rank has passed the assertion, completed
\* all 5 rounds and passed all 5 barriers (none is left blocked in a receive
\* or a barrier).
C21_EvenSizeCompletes ==
    (prog = "ping_pong" /\ size % 2 = 0 /\ ~ENABLED Next) =>
        \A r \in Ranks(size) :
            /\ pc[r] = "done"
            /\ loc[r].i = NRounds
            /\ entered[r] = NRounds

\* C22: with an odd group size every rank fails the assertion before any
\* send, receive or barrier: no rank enters the loop, no message is sent, no
\* barrier is entered, and at rest every rank has raised AssertionError.
C22_OddSizeFailsFirst ==
    (prog = "ping_pong" /\ size % 2 = 1) =>
        /\ \A r \in Ranks(size) :
              /\ pc[r] \in {"pp_start", "AssertionError"}
              /\ entered[r] = 0
              /\ loc[r].stdout = <<>>
              /\ loc[r].ping_pong_count = PyNone
        /\ NoneInFlight
        /\ ~ENABLED Next => \A r \in Ranks(size) : pc[r] = "AssertionError"

C22_Witness ==
    /\ prog = "ping_pong" /\ size = 3
    /\ \A r \in Ranks(size) : pc[r] = "AssertionError"

\* the lines rank r of the 2-rank ping-pong prints over the 5 rounds: in
\* round i rank i mod 2 sends i+1 and the other rank receives i+1
PingPongOutput(r) ==
    [k \in 1 .. NRounds |->
        PingPongLine(IF r = (k - 1) % 2 THEN "sent" ELSE "received", PyInt(k), 1 - r)]

\* C23: in the 2-rank ping-pong, in round i exactly rank i mod 2 sends and
\* the other receives, the value sent and received in round i is i+1 (1, 2,
\* 3, 4, 5 in that order), and both ranks hold 5 after the last round.
C23_PingPongValues ==
    (prog = "ping_pong" /\ size = 2) =>
        \A r \in Ranks(size) :
            /\ Len(loc[r].stdout) <= NRounds
            /\ loc[r].stdout = SubSeq(PingPongOutput(r), 1, Len(loc[r].stdout))
            /\ Len(loc[r].stdout) =
                  (IF pc[r] \in {"pp_barrier", "pp_wait"} THEN loc[r].i + 1 ELSE loc[r].i)
            /\ pc[r] = "done" =>
                  /\ Len(loc[r].stdout) = NRounds
                  /\ loc[r].ping_pong_count = PyInt(NRounds)

C23_Witness ==
    /\ prog = "ping_pong" /\ size = 2
    /\ pc[0] = "done" /\ pc[1] = "done"
    /\ loc[0].ping_pong_count = PyInt(5) /\ loc[1].ping_pong_count = PyInt(5)
    /\ loc[1].stdout[4] = PingPongLine("sent", PyInt(4), 0)
    /\ loc[0].stdout[4] = PingPongLine("received", PyInt(4), 1)

(***************************************************************************)
(* Properties of the two ring cells of send-recv.ipynb.                    *)
(***************************************************************************)
RingProgs == {"ring", "Ring"}

\* C24: both ring cells (send/recv and Send/Recv) terminate on every rank for
\* every group size N >= 1, N = 1 included: with a send that returns once the
\* message is handed to the transport, every rank eventually finishes its
\* cell.
C24_RingsTerminate ==
    (prog \in RingProgs) ~> (\A r \in Ranks(size) : pc[r] = "done")

C24_Witness ==
    /\ prog = "Ring" /\ size = 1
    /\ pc[0] = "done"
    /\ loc[0].stdout = <<NdArray(<<0>>)>>

\* the number of elements of the buffer rank d passes to comm.Recv: all of
\* buf on rank 0, buf[:rank] on the others
RecvCount(d) == IF d = 0 THEN Len(loc[d].buf.v) ELSE Len(SliceTo(loc[d].buf, d).v)

\* C25: in the buffer ring every message in transit from rank s goes to rank
\* (s+1) mod N, has s+1 elements (1 from rank 0), and that is exactly the
\* number of elements of the buffer its receiver passes to Recv (r elements on
\* rank r, all N on rank 0); no receive fails with a truncation error.
C25_CountsMatch ==
    prog = "Ring" =>
        /\ \A s \in Ranks(size), d \in Ranks(size) :
              \A k \in 1 .. Len(chan[<<s, d>>]) :
                  /\ d = (s + 1) % size
                  /\ Len(chan[<<s, d>>][k].v) = (IF s = 0 THEN 1 ELSE s + 1)
                  /\ Len(chan[<<s, d>>][k].v) = RecvCount(d)
                  /\ RecvCount(d) = (IF d = 0 THEN size ELSE d)
        /\ \A r \in Ranks(size) : pc[r] # "MPI_ERR_TRUNCATE"

C25_Witness ==
    /\ prog = "Ring" /\ size = 4
    /\ pc[3] = "done" /\ pc[0] = "ring_final"
    /\ Len(chan[<<3, 0>>]) = 1
    /\ Len(chan[<<3, 0>>][1].v) = 4

\* the array [0, 1, ..., k-1] followed by zeros up to length n
CountTo(k, n) == NdArray([i \in 1 .. n |-> IF i <= k THEN i - 1 ELSE 0])

\* C26: once rank r of the buffer ring has finished, rank 0's buf is
\* [0, 1, ..., N-1]; on a rank r other than 0 buf holds 0..r in positions
\* 0..r and zeros after them, and the token it received (and printed) is
\* [0, ..., r-1].
C26_FinalBuffers ==
    prog = "Ring" =>
        \A r \in Ranks(size) :
            pc[r] = "done" =>
                /\ loc[r].buf = (IF r = 0 THEN CountTo(size, size) ELSE CountTo(r + 1, size))
                /\ loc[r].stdout = <<IF r = 0 THEN CountTo(size, size) ELSE CountTo(r, r)>>

C26_Witness ==
    /\ prog = "Ring" /\ size = 4
    /\ \A r \in Ranks(size) : pc[r] = "done"
    /\ loc[0].buf = NdArray(<<0, 1, 2, 3>>)
    /\ loc[2].buf = NdArray(<<0, 1, 2, 0>>)
    /\ loc[2].stdout = <<NdArray(<<0, 1>>)>>

(***************************************************************************)
(* Properties of measure_one and ping_pong_repeat of send-vs-send.ipynb.   *)
(***************************************************************************)
\* measure_one was called with a kind ping_pong_repeat knows
ValidKind == \A r \in Ranks(size) : loc[r].kwkind \in {"send", "Send"}

\* both ranks that have set iterations hold the same value, and a rank that
\* has returned has called comm.Barrier() once if iterations is 0 and three
\* times otherwise
C27_SameBranch ==
    (prog = "measure_one" /\ ValidKind) =>
        /\ \A r \in Ranks(size), q \in Ranks(size) :
              (loc[r].iterations # PyNone /\ loc[q].iterations # PyNone) =>
                  loc[r].iterations = loc[q].iterations
        /\ \A r \in Ranks(size) :
              /\ pc[r] \notin {"ValueError", "TypeError"}
              /\ pc[r] = "done" =>
                    /\ loc[r].iterations \in {PyInt(i) : i \in IterationChoices}
                    /\ entered[r] = (IF loc[r].iterations.v = 0 THEN 1 ELSE 3)

\* C27: measure_one terminates on both ranks of the 2-rank group for every
\* outcome of the trial timing: both ranks take the same branch of
\* `if iterations`, call comm.Barrier() the same number of times (1 when
\* iterations is 0, otherwise 3), and both eventually return.
C27_MeasureOneTerminates ==
    /\ [](C27_SameBranch)
    /\ (prog = "measure_one" /\ ValidKind) ~> (\A r \in Ranks(size) : pc[r] = "done")

C27_Witness ==
    /\ prog = "measure_one" /\ ValidKind
    /\ pc[0] = "done" /\ pc[1] = "done"
    /\ loc[0].iterations = PyInt(MaxIterations) /\ loc[1].iterations = PyInt(MaxIterations)
    /\ entered[0] = 3 /\ entered[1] = 3

\* C28: when ping_pong_repeat is called with a kind other than "send" or
\* "Send", no rank gets past the first call of ping_pong_repeat, no message is
\* sent or received, none is in flight, and at rest every rank has raised
\* ValueError (none is blocked waiting for its partner).
C28_UnknownKindRaises ==
    (prog = "measure_one" /\ ~ValidKind) =>
        /\ NoneInFlight
        /\ \A r \in Ranks(size) :
              /\ pc[r] \in {"m_bar1", "m_wait1", "m_trial", "ValueError"}
              /\ loc[r].sent = NoHistory /\ loc[r].delivered = NoHistory
              /\ loc[r].iterations = PyNone
        /\ ~ENABLED Next => \A r \in Ranks(size) : pc[r] = "ValueError"

C28_Witness ==
    /\ prog = "measure_one"
    /\ \A r \in Ranks(size) : loc[r].kwkind = "SEND" /\ pc[r] = "ValueError"
    /\ NoneInFlight

(***************************************************************************)
(* Properties of the Poisson assembly cell.                                *)
(***************************************************************************)
\* the statements of the cell in the order the claim gives
AssemblyOrder ==
    <<"assemble_vector", "apply_lifting", "scatter_reverse", "scatter_forward",
      "set_bc", "mpi_print">>

\* C20: on every rank the statements complete in the order assemble_vector,
\* apply_lifting, scatter_reverse(add), scatter_forward, set_bc; set_bc and
\* the read of _b that follows (mpi_print) happen only after that rank's
\* scatter_reverse and scatter_forward have both completed (each received
\* the other rank's message).
C20_AssemblyOrder ==
    prog = "poisson" =>
        \A r \in Ranks(size) :
            /\ Len(loc[r].steps) <= Len(AssemblyOrder)
            /\ loc[r].steps = SubSeq(AssemblyOrder, 1, Len(loc[r].steps))
            /\ pc[r] \in {"ps_set_bc", "ps_print", "done"} =>
                  /\ Len(loc[r].steps) >= 4
                  /\ \A q \in PoissonPeers(r) :
                        pc[q] \notin {"ps_assemble", "ps_lifting", "ps_reverse",
                                      "ps_rev_wait", "ps_forward"}

C20_Witness ==
    /\ prog = "poisson"
    /\ pc[0] = "done" /\ loc[0].steps = AssemblyOrder
    /\ pc[1] = "ps_fwd_wait"
    /\ loc[1].steps = <<"assemble_vector", "apply_lifting", "scatter_reverse">>

(***************************************************************************)
(* Properties of the group: ranks, size, and the clusters' lifetime.       *)
(***************************************************************************)
\* the processes that have run the rank/size cell
Reported == {r \in Ranks(size) : pc[r] = "done"}

\* C17 (state part): the ranks the processes report are pairwise distinct
\* and, once all have reported, exactly 0..N-1; every process reports the
\* same size N, the number of processes of the group.
RanksDistinctSizeShared ==
    /\ DOMAIN pc = Ranks(size)
    /\ prog = "rank_size" =>
          /\ \A r, q \in Reported : r # q => loc[r].rank # loc[q].rank
          /\ \A r \in Reported :
                /\ loc[r].rank.v \in 0 .. (size - 1)
                /\ loc[r].size = PyInt(size)
                /\ loc[r].stdout = <<<<loc[r].rank.v, loc[r].size.v>>>>
          /\ Reported = Ranks(size) =>
                {loc[r].rank.v : r \in Ranks(size)} = 0 .. (size - 1)

\* C17 (step part): no step of any program changes the size of the group or
\* its set of processes, nor the rank or size a process has reported.
RanksAndSizeStable ==
    /\ size' = size
    /\ DOMAIN pc' = DOMAIN pc
    /\ prog = "rank_size" =>
          \A r \in Reported :
              loc'[r].rank = loc[r].rank /\ loc'[r].size = loc[r].size

\* C17: within a group of size N the reported ranks are pairwise distinct
\* and exactly 0..N-1, every process reports the same size N, and neither a
\* process's rank nor the size changes while the group exists.
C17_RanksAndSize == [](RanksDistinctSizeShared) /\ [][RanksAndSizeStable]_vars

C17_Witness ==
    /\ prog = "rank_size" /\ size = 4
    /\ Reported = Ranks(size)
    /\ loc[3].stdout = <<<<3, 4>>>>

\* the number of times cluster c occurs in the sequence cs
Count(cs, c) == Cardinality({i \in DOMAIN cs : cs[i] = c})

\* C18: at most one cluster is running at any time (in send-recv the
\* 2-engine cluster is stopped before the 4-engine one is started), and when
\* the notebook has ended every cluster it started has been stopped exactly
\* once.
C18_StartedOnceStoppedOnce ==
    prog = "notebook" =>
        /\ Cardinality(loc[0].running) <= 1
        /\ pc[0] = "nb_end" =>
              /\ loc[0].running = {}
              /\ \A i \in DOMAIN loc[0].started :
                    Count(loc[0].stopped, loc[0].started[i]) = 1

=============================================================================
